---- MODULE Spec2Model ----
(***************************************************************************)
(* Model of the DhinSpeak real-time relay: the ConnectionManager registry  *)
(* (rooms, room languages, last payload per client), the websocket handler *)
(* loop with its suspension points, the self-healing room broadcast, the  *)
(* per-client sliding-window rate limiter of MetricsManager, the cache and *)
(* the engine of the translation, the control protocol, the persistence    *)
(* of FirebaseManager, the metrics feed, the statistics of MetricsManager, *)
(* and create_room of the HTTP API.                                        *)
(***************************************************************************)
EXTENDS Integers, Sequences, FiniteSets, TLC

(***************************************************************************)
(* Bounds of the model.                                                    *)
(***************************************************************************)
NumConns == 2
NumRooms == 2
MaxCapacity == 2
MaxFrames == 3
MaxCreates == 1
MaxBreaks == 1
NumClients == 2
MaxLimit == 2
MaxExtraChecks == 2
MaxClock == 122
MaxCacheSize == 5
MaxTranslations == 3
MaxAccesses == 9
MaxControlFrames == 2
MaxTicks == 2
MaxTurns == 2
HistoryMaxLen == 3
WindowMaxLen == 2
MaxDuration == 2
MaxRecords == 5
MaxRoomsMade == 2

\* core/metrics.py: the window of check_rate_limit, in seconds, and the
\* maxlen of the deque that holds a client's timestamps.
Window == 60
DequeMaxLen == 100

\* firebase/sync.py: max_retries of _save_with_retry and _delete_with_retry
MaxRetries == 3

Conns == 1..NumConns
Rooms == 1..NumRooms
Capacities == 0..MaxCapacity
Clients == 1..NumClients

(***************************************************************************)
(* Frames a client may send.  A frame is the text received by              *)
(* websocket.receive_text(): what precedes its body (nothing, or text that *)
(* ends in the marker "CONTROL:"), and the body: plain text, text that     *)
(* starts with "{" and is not JSON ("malformed"), or a JSON object with a  *)
(* "type" and one value (the language of a language frame, the timestamp   *)
(* of a ping, the text of a partial_speech frame).                         *)
(***************************************************************************)
Texts == {"halo", "terima kasih"}
Languages == {"id", "en"}
Frame(pre, type, val) == [pre |-> pre, type |-> type, val |-> val]
TextFrame(t) == Frame("", "text", t)
LanguageFrame(l) == Frame("", "language", l)
Frames == {TextFrame(t) : t \in Texts} \cup {LanguageFrame(l) : l \in Languages}

None == Frame("", "none", "")

\* The frames of the control protocol: each body bare and behind the
\* marker; language frames with a language the service knows, one it does
\* not know, an empty one, and one that itself contains the marker.
Prefixes == {"", "CONTROL:"}
MarkerValues == {"CONTROL:"}
ControlFrames ==
    {Frame(p, "language", v) : p \in Prefixes, v \in {"en", "fr", "", "CONTROL:"}}
    \cup {Frame(p, "ping", "t1") : p \in Prefixes}
    \cup {Frame(p, "partial_speech", "halo") : p \in Prefixes}
    \cup {Frame(p, "malformed", "{oops") : p \in Prefixes}
    \cup {Frame(p, "unknown", "foo") : p \in Prefixes}
    \cup {TextFrame("halo")}

(***************************************************************************)
(* handle_control_message: which JSON object, if any, it hands to          *)
(* process_control_json.                                                   *)
(***************************************************************************)
ControlTypes == {"language", "ping", "partial_speech", "close_room"}
JsonTypes == ControlTypes \cup {"unknown"}
NoJson == [type |-> "none", val |-> ""]
Json(f) == [type |-> f.type, val |-> f.val]

\* data.strip().startswith("{")
starts_with_brace(f) == f.pre = "" /\ f.type \in JsonTypes \cup {"malformed"}

\* json.loads with every JSON object read as a ping
json_loads_any_type(f) ==
    IF f.pre = "" /\ f.type \in JsonTypes THEN [Json(f) EXCEPT !.type = "ping"] ELSE NoJson

\* json.loads(data), NoJson for JSONDecodeError
json_loads(f) == IF f.pre = "" /\ f.type \in JsonTypes THEN Json(f) ELSE NoJson

\* "CONTROL:" in data
contains_marker(f) == f.pre = "CONTROL:" \/ f.val \in MarkerValues

\* json.loads(data.split("CONTROL:")[1]): the text between the first marker
\* and the next one, which is the whole body only if the body holds no
\* marker
control_part(f) ==
    IF f.pre = "CONTROL:" /\ f.type \in JsonTypes /\ f.val \notin MarkerValues
    THEN Json(f) ELSE NoJson

control_json(f) ==
    IF starts_with_brace(f) /\ json_loads(f) # NoJson THEN json_loads(f)
    ELSE IF contains_marker(f) THEN control_part(f)
    ELSE NoJson
EmptyMap == [x \in {} |-> {}]

VARIABLES
    max_connections,      \* settings.MAX_CONNECTIONS_PER_ROOM
    active_connections,   \* ConnectionManager.active_connections
    room_languages,       \* ConnectionManager.room_languages
    client_last_message,  \* ConnectionManager.client_last_message
    pc,                   \* position of each websocket_endpoint coroutine
    room_code,            \* the room_code path parameter of each endpoint call
    bc,                   \* the broadcast_to_room call each handler is suspended in
    broken,               \* connections whose transport no longer takes a send
    nrecv,                \* frames received so far
    ncreate,              \* create_room calls so far
    rooms_named,          \* room codes are numbered in the order of first use
    created,              \* history: rooms made by create_room
    had_connection,       \* history: rooms that have had a member
    connect_result,       \* history: what manager.connect returned per connection
    last_bcast,           \* history: outcome of the last broadcast_to_room call
    streak,               \* history: consecutive identical payloads per connection
    streak_bcasts,        \* history: broadcast calls made for the current streak
    last_payload,         \* history: the previous payload frame per connection
    last_recv,            \* history: the frame received last and what became of it
    rate_limit,           \* settings.RATE_LIMIT_PER_MINUTE
    client_requests,      \* MetricsManager.client_requests
    clock,                \* time.time(), in seconds
    checks,               \* history: per client, its first checks (see Check)
    accepted,             \* history: per client, accepted timestamps still in the window
    max_size,             \* TranslationCache.max_size (settings.TRANSLATION_CACHE_SIZE)
    cache,                \* TranslationCache.cache, least recently used entry first
    tr,                   \* the translate_text call each caller is suspended in
    ntranslate,           \* translate_text calls so far
    used,                 \* history: per cached key, the count of its latest get or put
    naccess,              \* history: gets and puts of the cache so far
    last_result,          \* history: what the last translate_text call returned
    data,                 \* the frame each handler is working on (its local data)
    stages,               \* history: what each handler has done for that frame, in order
    reply,                \* history: the frame each handler last sent to its own client
    response,             \* history: the message of each handler's last broadcast_to_room call
    total_requests,       \* MetricsManager.total_requests
    translation_metrics,  \* MetricsManager.translation_metrics, oldest sample first
    performance_data,     \* MetricsManager.performance_data, oldest value first
    last_stats,           \* history: what the last get_detailed_stats call returned
    total_errors,         \* MetricsManager.total_errors
    saves,                \* the save_translation tasks made by asyncio.create_task
    db,                   \* the records at /messages/<room_code> of the database
    last_save,            \* history: the save_translation call that returned last
    metrics_connections,  \* ConnectionManager.metrics_connections
    nticks,               \* turns of the loop of metrics_pusher so far
    last_tick,            \* history: what the last turn of metrics_pusher did
    path                  \* history: the path each client opened its websocket at

regVars == <<active_connections, room_languages, client_last_message>>
rateVars == <<rate_limit, client_requests, clock, checks, accepted>>
cacheVars == <<max_size, cache, tr, ntranslate, used, naccess, last_result>>
statVars == <<translation_metrics, performance_data, last_stats>>
feedVars == <<metrics_connections, nticks, last_tick, path>>
pipeVars == <<data, stages, reply, response, total_requests, statVars, total_errors, saves, db,
              last_save, feedVars>>
relayVars == <<max_connections, active_connections, room_languages, client_last_message,
               pc, room_code, bc, broken, nrecv, ncreate, rooms_named, created,
               had_connection, connect_result, last_bcast, streak, streak_bcasts,
               last_payload, last_recv>>
vars == <<max_connections, active_connections, room_languages, client_last_message,
          pc, room_code, bc, broken, nrecv, ncreate, rooms_named, created,
          had_connection, connect_result, last_bcast, streak, streak_bcasts,
          last_payload, last_recv, rate_limit, client_requests, clock, checks, accepted,
          max_size, cache, tr, ntranslate, used, naccess, last_result,
          data, stages, reply, response, total_requests, statVars, total_errors, saves, db,
          last_save, metrics_connections, nticks, last_tick, path>>

(***************************************************************************)
(* Dictionaries: a Python dict is a function whose domain is its key set.  *)
(***************************************************************************)
DictSet(d, k, v) == [x \in (DOMAIN d) \cup {k} |-> IF x = k THEN v ELSE d[x]]
DictDel(d, k) == [x \in (DOMAIN d) \ {k} |-> d[x]]

(***************************************************************************)
(* The registry as a value, so that the manager's methods are operators.   *)
(***************************************************************************)
Registry == [ac |-> active_connections, rl |-> room_languages, clm |-> client_last_message]

\* connect with the capacity test written > instead of >=
connect_admits_at_capacity(reg, ws, room, maxc) ==
    LET ac1 == IF room \in DOMAIN reg.ac THEN reg.ac ELSE DictSet(reg.ac, room, {})
    IN IF Cardinality(ac1[room]) > maxc
       THEN [reg |-> [reg EXCEPT !.ac = ac1], ret |-> FALSE]
       ELSE [reg |-> [reg EXCEPT !.ac = DictSet(ac1, room, ac1[room] \cup {ws})],
             ret |-> TRUE]

\* ConnectionManager.connect after websocket.accept(): the registry it leaves
\* and its return value.
connect(reg, ws, room, maxc) ==
    LET ac1 == IF room \in DOMAIN reg.ac THEN reg.ac ELSE DictSet(reg.ac, room, {})
    IN IF Cardinality(ac1[room]) >= maxc
       THEN [reg |-> [reg EXCEPT !.ac = ac1], ret |-> FALSE]
       ELSE [reg |-> [reg EXCEPT !.ac = DictSet(ac1, room, ac1[room] \cup {ws})],
             ret |-> TRUE]

\* disconnect with the empty-room test made before the discard
disconnect_tests_before_discard(reg, ws, room) ==
    LET r1 == IF room \in DOMAIN reg.ac
              THEN IF reg.ac[room] = {}
                   THEN [reg EXCEPT !.ac = DictDel(reg.ac, room),
                                    !.rl = DictDel(reg.rl, room)]
                   ELSE [reg EXCEPT !.ac = DictSet(reg.ac, room, reg.ac[room] \ {ws})]
              ELSE reg
    IN [r1 EXCEPT !.clm = DictDel(r1.clm, ws)]

\* ConnectionManager.disconnect
disconnect(reg, ws, room) ==
    LET r1 == IF room \in DOMAIN reg.ac
              THEN LET members == reg.ac[room] \ {ws}
                   IN IF members = {}
                      THEN [reg EXCEPT !.ac = DictDel(reg.ac, room),
                                       !.rl = DictDel(reg.rl, room)]
                      ELSE [reg EXCEPT !.ac = DictSet(reg.ac, room, members)]
              ELSE reg
    IN [r1 EXCEPT !.clm = DictDel(r1.clm, ws)]

\* ConnectionManager.set_room_language
set_room_language(reg, room, language) ==
    [reg EXCEPT !.rl = DictSet(reg.rl, room, language)]

\* ConnectionManager.get_room_language
get_room_language(reg, room) ==
    IF room \in DOMAIN reg.rl THEN reg.rl[room] ELSE "id"

\* ConnectionManager.is_duplicate_message: the registry it leaves and its
\* return value.
is_duplicate_message(reg, ws, message) ==
    IF ws \in DOMAIN reg.clm /\ reg.clm[ws] = message
    THEN [reg |-> reg, ret |-> TRUE]
    ELSE [reg |-> [reg EXCEPT !.clm = DictSet(reg.clm, ws, message)], ret |-> FALSE]

(***************************************************************************)
(* broadcast_to_room.  The for loop iterates the live set object of the    *)
(* room and awaits send_json inside it, so the call is a sequence of       *)
(* steps.  used is the size the set iterator recorded when it was made     *)
(* (CPython raises RuntimeError "Set changed size during iteration" from   *)
(* the next step of the iterator when the size differs, also after the     *)
(* last element); stale says that the room entry was deleted since, so     *)
(* the iterated set object is the emptied one.                             *)
(***************************************************************************)
NoBcast == [active |-> FALSE, room |-> 0, kind |-> "", start |-> {}, used |-> 0,
            visited |-> {}, target |-> 0, failed |-> {}, ok |-> {}, stale |-> FALSE]

Members(reg, room) == IF room \in DOMAIN reg.ac THEN reg.ac[room] ELSE {}

\* the clean-up of a broadcast closing the whole room when a send failed
disconnect_room(reg, conns, room) ==
    IF conns = {} \/ room \notin DOMAIN reg.ac THEN reg
    ELSE [reg EXCEPT !.ac = DictDel(reg.ac, room), !.rl = DictDel(reg.rl, room)]

\* the loop "for conn in disconnected: self.disconnect(conn, room_code)"
RECURSIVE disconnect_all(_, _, _)
disconnect_all(reg, conns, room) ==
    IF conns = {} THEN reg
    ELSE LET ws == CHOOSE x \in conns : TRUE
         IN disconnect_all(disconnect(reg, ws, room), conns \ {ws}, room)

\* A set iterator whose set object lost its dictionary entry iterates the
\* emptied object from then on.
MarkStale(b, before, after) ==
    [c \in Conns |->
        IF b[c].active /\ b[c].room \in DOMAIN before.ac /\ b[c].room \notin DOMAIN after.ac
        THEN [b[c] EXCEPT !.stale = TRUE] ELSE b[c]]

SetRegistry(reg) ==
    /\ active_connections' = reg.ac
    /\ room_languages' = reg.rl
    /\ client_last_message' = reg.clm

(***************************************************************************)
(* History of the last broadcast_to_room call that ended: whether it       *)
(* raised, whether a send failed, whether every connection that was a      *)
(* member from its start to its end was sent the message, and whether the  *)
(* members it removed are exactly those whose send failed.                 *)
(***************************************************************************)
NoOutcome == [done |-> FALSE, error |-> FALSE, send_failed |-> FALSE,
              all_attempted |-> TRUE, removed_failed |-> TRUE]

\* b: the call's state at its end; atEnd, after: the room's members before
\* and after its clean-up loop.
Outcome(b, err, atEnd, after) ==
    [done |-> TRUE, error |-> err, send_failed |-> b.failed # {},
     all_attempted |-> (b.start \cap atEnd) \subseteq b.visited,
     removed_failed |-> after = atEnd \ b.failed]

\* The first statements of broadcast_to_room, up to its first await.
BroadcastStart(reg, room, kind, target) ==
    [active |-> TRUE, room |-> room, kind |-> kind, start |-> reg.ac[room],
     used |-> Cardinality(reg.ac[room]), visited |-> {target}, target |-> target,
     failed |-> {}, ok |-> {}, stale |-> FALSE]

HasSends(reg, room) == room \in DOMAIN reg.ac /\ reg.ac[room] # {}

\* The handler of connection c calls broadcast_to_room(room_code, message)
\* with the registry reg in hand (reg is what the step has made of the
\* registry so far); sb is the history of translation broadcasts to add to
\* (a call that finds no member to send to is not counted).
CallBroadcast(c, reg, kind, sb) ==
    LET room == room_code[c]
    IN /\ SetRegistry(reg)
       /\ streak_bcasts' = IF HasSends(reg, room) /\ kind = "translation"
                           THEN [sb EXCEPT ![c] = IF @ < 2 THEN @ + 1 ELSE @]
                           ELSE sb
       /\ IF HasSends(reg, room)
          THEN /\ \E t \in reg.ac[room] :
                    bc' = [bc EXCEPT ![c] = BroadcastStart(reg, room, kind, t)]
               /\ pc' = [pc EXCEPT ![c] = "send"]
               /\ UNCHANGED last_bcast
          ELSE /\ bc' = bc
               /\ pc' = [pc EXCEPT ![c] = "recv"]
               /\ last_bcast' = [NoOutcome EXCEPT !.done = TRUE]

(***************************************************************************)
(* Texts of the translation engine.  A text is its lowercased words, the   *)
(* casing of its letters ("lower", "mixed" for the casing a seed phrase is *)
(* written in, "upper"), whether whitespace surrounds it, and len(text).   *)
(***************************************************************************)
Text(words, case, pad, len) == [words |-> words, case |-> case, pad |-> pad, len |-> len]

\* None, as cache.get and _try_fuzzy_match return it
NoValue == Text(<< >>, "none", FALSE, 0)

\* the truth value of "if cached_result:" and "if fuzzy_result:"
Truthy(value) == value.len > 0

\* str.lower, str.strip and str.split
lower(text) == [text EXCEPT !.case = "lower"]
strip(text) == [text EXCEPT !.pad = FALSE,
                            !.len = IF text.pad THEN text.len - 2 ELSE text.len]
split(text) == {text.words[i] : i \in DOMAIN text.words}

\* _clean_text: strip, and runs of whitespace made one blank
clean_text(text) == strip(text)

\* Two of the fifteen phrase pairs of _initialize_test_sentences.
IdHalo == Text(<<"halo", "nama", "saya", "fahdin">>, "mixed", FALSE, 21)
EnHello == Text(<<"hello", "my", "name", "is", "fahdin">>, "mixed", FALSE, 23)
IdTerima == Text(<<"terima", "kasih", "atas", "bantuan", "anda">>, "mixed", FALSE, 30)
EnThank == Text(<<"thank", "you", "for", "your", "help">>, "lower", FALSE, 23)
test_sentences == [id |-> <<IdHalo, IdTerima>>, en |-> <<EnHello, EnThank>>]
NumSeedEntries == Len(test_sentences["id"]) + Len(test_sentences["en"])

\* process_translation_message: target_lang = 'en' if source_lang == 'id' else 'id'
target_lang(source_lang) == IF source_lang = "id" THEN "en" ELSE "id"

\* _make_cache_key: f"{text.lower().strip()}|{source_lang}|{target_lang}"
make_cache_key(text, source, target) ==
    [text |-> strip(lower(text)), source |-> source, target |-> target]

(***************************************************************************)
(* TranslationCache: an OrderedDict, modelled as the sequence of its       *)
(* entries, the least recently used first.  Each operation also reports    *)
(* the keys it has looked up successfully or stored, in order (touched).   *)
(***************************************************************************)
Keys(entries) == {entries[i].key : i \in DOMAIN entries}
ValueOf(entries, key) == entries[CHOOSE i \in DOMAIN entries : entries[i].key = key].value
Without(entries, key) == SelectSeq(entries, LAMBDA e : e.key # key)

\* OrderedDict.move_to_end
move_to_end(entries, key) ==
    Append(Without(entries, key), [key |-> key, value |-> ValueOf(entries, key)])

\* get without the move_to_end
get_keeps_place(entries, key) ==
    IF key \in Keys(entries)
    THEN [cache |-> entries, ret |-> ValueOf(entries, key), touched |-> <<key>>]
    ELSE [cache |-> entries, ret |-> NoValue, touched |-> << >>]

\* TranslationCache.get
get(entries, key) ==
    IF key \in Keys(entries)
    THEN [cache |-> move_to_end(entries, key), ret |-> ValueOf(entries, key),
          touched |-> <<key>>]
    ELSE [cache |-> entries, ret |-> NoValue, touched |-> << >>]

\* put with the capacity test written > instead of >=
put_evicts_late(entries, key, value, max) ==
    LET kept == IF key \in Keys(entries) THEN Without(entries, key)
                ELSE IF Len(entries) > max THEN Tail(entries)
                ELSE entries
    IN Append(kept, [key |-> key, value |-> value])

\* TranslationCache.put
put(entries, key, value, max) ==
    LET kept == IF key \in Keys(entries) THEN Without(entries, key)
                ELSE IF Len(entries) >= max THEN Tail(entries)
                ELSE entries
    IN Append(kept, [key |-> key, value |-> value])

\* TranslationCache.clear and TranslationCache.size
clear(entries) == << >>
size(entries) == Len(entries)

\* _initialize_cache: both directions of every pair, in the order of zip
RECURSIVE initialize_cache(_, _, _)
initialize_cache(entries, max, i) ==
    IF i > Len(test_sentences["id"]) THEN entries
    ELSE LET id_text == test_sentences["id"][i]
             en_text == test_sentences["en"][i]
             c1 == put(entries, make_cache_key(id_text, "id", "en"), en_text, max)
             c2 == put(c1, make_cache_key(en_text, "en", "id"), id_text, max)
         IN initialize_cache(c2, max, i + 1)

\* the keys _initialize_cache stores, in order
SeedKeys ==
    [j \in 1..NumSeedEntries |->
        IF j % 2 = 1 THEN make_cache_key(test_sentences["id"][(j + 1) \div 2], "id", "en")
        ELSE make_cache_key(test_sentences["en"][j \div 2], "en", "id")]

\* _calculate_similarity, as the pair (|intersection|, |union|) of the word
\* sets of two lowercased texts; (0, 1) when a text has no word
calculate_similarity(text1, text2) ==
    LET words1 == split(text1)
        words2 == split(text2)
    IN IF words1 = {} \/ words2 = {} THEN [num |-> 0, den |-> 1]
       ELSE [num |-> Cardinality(words1 \cap words2),
             den |-> Cardinality(words1 \cup words2)]

\* score > 0.6, and score > best_score
Above60(score) == 5 * score.num > 3 * score.den
Higher(score, best) == score.num * best.den > best.num * score.den

\* the loop of _try_fuzzy_match over the first i seed phrases: the best
\* match so far (0 for None) and its score
RECURSIVE best_match(_, _, _)
best_match(text, phrases, i) ==
    IF i = 0 THEN [index |-> 0, score |-> [num |-> 0, den |-> 1]]
    ELSE LET best == best_match(text, phrases, i - 1)
             score == calculate_similarity(lower(text), lower(phrases[i]))
         IN IF Above60(score) /\ Higher(score, best.score)
            THEN [index |-> i, score |-> score]
            ELSE best

\* self.test_sentences.get(source_lang, [])
PhrasesOf(source) == IF source \in DOMAIN test_sentences THEN test_sentences[source] ELSE << >>

\* _try_fuzzy_match
try_fuzzy_match(entries, text, source, target) ==
    LET phrases == PhrasesOf(source)
        best == best_match(text, phrases, Len(phrases))
    IN IF best.index # 0
       THEN get(entries, make_cache_key(phrases[best.index], source, target))
       ELSE [cache |-> entries, ret |-> NoValue, touched |-> << >>]

(***************************************************************************)
(* TranslationEngine.translate_text.  The call runs without suspending     *)
(* unless it reaches model.generate in _perform_translation, which it      *)
(* awaits; it then resumes at the return of the awaited call.              *)
(***************************************************************************)
\* what the model makes of a text: a text of the target language that is
\* no phrase of the corpus
ModelOutput(text, target) ==
    Text(<<target>> \o text.words, "lower", FALSE, text.len + 3)

Returned(entries, touched, translated, hit) ==
    [cache |-> entries, touched |-> touched, suspended |-> FALSE,
     translated |-> translated, cache_hit |-> hit]

\* translate_text with the fuzzy result returned and not stored
translate_text_fuzzy_unstored(entries, max, text, source, target, is_partial, loaded) ==
    IF source = target THEN Returned(entries, << >>, text, FALSE)
    ELSE IF text.words = << >> THEN Returned(entries, << >>, text, FALSE)
    ELSE
    LET cache_key == make_cache_key(text, source, target)
        cached == get(entries, cache_key)
        fuzzy == IF text.len < 50 /\ ~is_partial
                 THEN try_fuzzy_match(cached.cache, text, source, target)
                 ELSE [cache |-> cached.cache, ret |-> NoValue, touched |-> << >>]
    IN IF Truthy(cached.ret)
       THEN Returned(cached.cache, cached.touched, cached.ret, TRUE)
       ELSE IF Truthy(fuzzy.ret)
       THEN Returned(fuzzy.cache, cached.touched \o fuzzy.touched, fuzzy.ret, TRUE)
       ELSE IF ~loaded
       THEN IF is_partial
            THEN Returned(fuzzy.cache, cached.touched \o fuzzy.touched,
                          clean_text(text), FALSE)
            ELSE Returned(put(fuzzy.cache, cache_key, clean_text(text), max),
                          cached.touched \o fuzzy.touched \o <<cache_key>>,
                          clean_text(text), FALSE)
       ELSE [cache |-> fuzzy.cache, touched |-> cached.touched \o fuzzy.touched,
             suspended |-> TRUE, translated |-> NoValue, cache_hit |-> FALSE]

\* translate_text up to its return or to the await of the model; loaded
\* says whether get_model_and_tokenizer has a model for the pair.
translate_text(entries, max, text, source, target, is_partial, loaded) ==
    IF source = target THEN Returned(entries, << >>, text, FALSE)
    ELSE IF text.words = << >> THEN Returned(entries, << >>, text, FALSE)
    ELSE
    LET cache_key == make_cache_key(text, source, target)
        cached == get(entries, cache_key)
        fuzzy == IF text.len < 50 /\ ~is_partial
                 THEN try_fuzzy_match(cached.cache, text, source, target)
                 ELSE [cache |-> cached.cache, ret |-> NoValue, touched |-> << >>]
    IN IF Truthy(cached.ret)
       THEN Returned(cached.cache, cached.touched, cached.ret, TRUE)
       ELSE IF Truthy(fuzzy.ret)
       THEN Returned(put(fuzzy.cache, cache_key, fuzzy.ret, max),
                     cached.touched \o fuzzy.touched \o <<cache_key>>, fuzzy.ret, TRUE)
       ELSE IF ~loaded
       THEN IF is_partial
            THEN Returned(fuzzy.cache, cached.touched \o fuzzy.touched,
                          clean_text(text), FALSE)
            ELSE Returned(put(fuzzy.cache, cache_key, clean_text(text), max),
                          cached.touched \o fuzzy.touched \o <<cache_key>>,
                          clean_text(text), FALSE)
       ELSE [cache |-> fuzzy.cache, touched |-> cached.touched \o fuzzy.touched,
             suspended |-> TRUE, translated |-> NoValue, cache_hit |-> FALSE]

\* get_model_and_tokenizer knows the two pairs id-en and en-id only
ModelPairs == {<<"id", "en">>, <<"en", "id">>}

NoCall == [active |-> FALSE, text |-> NoValue, source |-> "", target |-> "",
           is_partial |-> FALSE, fresh |-> FALSE]

\* History of the last translate_text call that returned: its arguments, its
\* results, whether it ran the model, and whether it was the first call
\* made to the engine.
NoResult == [done |-> FALSE, text |-> NoValue, source |-> "", target |-> "",
             is_partial |-> FALSE, translated |-> NoValue, cache_hit |-> FALSE,
             external |-> FALSE, fresh |-> FALSE]

\* the count of the latest get or put of each cached key, after the keys of
\* touched were accessed in order
Touch(ticks, n, touched, entries) ==
    [k \in Keys(entries) |->
        LET at == {i \in DOMAIN touched : touched[i] = k}
        IN IF at # {} THEN n + (CHOOSE i \in at : \A j \in at : j <= i)
           ELSE ticks[k]]

\* TranslationEngine.__init__ with TRANSLATION_CACHE_SIZE = max
EngineIdle(max) ==
    /\ max_size = max
    /\ cache = initialize_cache(<< >>, max, 1)
    /\ tr = [c \in Conns |-> NoCall]
    /\ ntranslate = 0
    /\ used = Touch(<< >>, 0, SeedKeys, initialize_cache(<< >>, max, 1))
    /\ naccess = NumSeedEntries
    /\ last_result = NoResult

(***************************************************************************)
(* FirebaseManager.  A text holds a marker when one of its whitespace-     *)
(* separated words has the marker's characters as a substring, in the      *)
(* marker's casing; the markers hold no whitespace.                        *)
(***************************************************************************)
Marker(letters, case) == [letters |-> letters, case |-> case]

\* control_indicators, each by its lowercased characters and its casing
control_indicators ==
    {Marker("control:", "upper"), Marker("{\"type\"", "lower"), Marker("\"type\":", "lower"),
     Marker("language", "lower"), Marker("control", "lower"), Marker("fontcolor", "lower"),
     Marker("ping", "lower"), Marker("pong", "lower"), Marker("partial_speech", "lower"),
     Marker("close_room", "lower")}

\* the markers, lowercased, that are substrings of a lowercased word
Within(word) ==
    CASE word = "control:" -> {"control:", "control"}
      [] word = "ping" -> {"ping"}
      [] word = "shopping" -> {"ping"}
      [] word = "languages" -> {"language"}
      [] word = "{\"type\":\"x\"}" -> {"{\"type\"", "\"type\":"}
      [] word = "{\"type\":\"close_room\"}" -> {"{\"type\"", "\"type\":", "close_room"}
      [] OTHER -> {}

\* indicator in text
Contains(text, indicator) ==
    /\ text.case = indicator.case
    /\ \E w \in split(text) : indicator.letters \in Within(w)

\* _is_control_message without text.lower()
is_control_message_case_sensitive(text) ==
    IF ~Truthy(text) THEN FALSE
    ELSE \E indicator \in control_indicators : Contains(text, indicator)

\* FirebaseManager._is_control_message
is_control_message(text) ==
    IF ~Truthy(text) THEN FALSE
    ELSE LET text_lower == lower(text)
         IN \E indicator \in control_indicators : Contains(text_lower, indicator)

\* save_translation up to its first await: "skip" when Firebase is not
\* initialized, "blocked" for a control message, else "write" for the call
\* of _save_with_retry.
save_translation(initialized, original_text, translated_text) ==
    IF ~initialized THEN "skip"
    ELSE IF is_control_message(original_text) \/ is_control_message(translated_text)
    THEN "blocked"
    ELSE "write"

\* asyncio.create_task(firebase_manager.save_translation(room_code, data,
\* translated_text, ...)): the coroutine before its first step
SaveTask(n, room, original_text, translated_text) ==
    [id |-> n, room |-> room, original |-> original_text,
     translated |-> translated_text, attempt |-> 0]

Saved(task, ret, wrote, blocked) ==
    [done |-> TRUE, ret |-> ret, wrote |-> wrote, blocked |-> blocked,
     original |-> task.original, translated |-> task.translated]

\* a save_translation task that goes on retrying after max_retries failures
SaveStepRetriesOn(task) ==
    /\ task \in saves
    /\ \/ /\ saves' = saves \ {task}
          /\ db' = DictSet(db, task.room, [original |-> task.original,
                                           translated |-> task.translated])
          /\ last_save' = Saved(task, TRUE, TRUE, FALSE)
       \/ /\ db' = db
          /\ task.attempt <= MaxRetries
          /\ saves' = (saves \ {task}) \cup {[task EXCEPT !.attempt = @ + 1]}
          /\ last_save' = last_save
    /\ UNCHANGED <<relayVars, rateVars, cacheVars, data, stages, reply, response,
                   total_requests, statVars, total_errors, feedVars>>

\* One step of a save_translation task: it returns False for a control
\* message; otherwise one attempt of _save_with_retry sets the record of
\* the room or raises, and after MaxRetries failed attempts the call
\* returns False.  Firebase is initialized from the start of the service.
SaveStep(task) ==
    /\ task \in saves
    /\ IF save_translation(TRUE, task.original, task.translated) # "write"
       THEN /\ saves' = saves \ {task}
            /\ last_save' = Saved(task, FALSE, FALSE, TRUE)
            /\ db' = db
       ELSE \/ /\ saves' = saves \ {task}
               /\ db' = DictSet(db, task.room, [original |-> task.original,
                                                translated |-> task.translated])
               /\ last_save' = Saved(task, TRUE, TRUE, FALSE)
            \/ /\ db' = db
               /\ IF task.attempt + 1 < MaxRetries
                  THEN /\ saves' = (saves \ {task}) \cup {[task EXCEPT !.attempt = @ + 1]}
                       /\ last_save' = last_save
                  ELSE /\ saves' = saves \ {task}
                       /\ last_save' = Saved(task, FALSE, FALSE, FALSE)
    /\ UNCHANGED <<relayVars, rateVars, cacheVars, data, stages, reply, response,
                   total_requests, statVars, total_errors, feedVars>>

(***************************************************************************)
(* websocket_endpoint.  pc[c] is "new" before the endpoint is called,      *)
(* "recv" while it awaits receive_text, "xlate" while translate_text       *)
(* awaits the model, "send" while broadcast_to_room awaits a send_json,    *)
(* and "done" once the coroutine has returned.                             *)
(***************************************************************************)
\* History of the last frame received: the connection, the frame, whether
\* process_control_json was called for it, whether handle_control_message
\* returned True, and the reply sent to the sender by process_control_json
\* ("ack", "pong", "failed" for a send that raised, "none").
NoRecv == [conn |-> 0, frame |-> None, control |-> FALSE, handled |-> FALSE,
           reply |-> "none"]

RelayIdle ==
    /\ active_connections = EmptyMap
    /\ room_languages = EmptyMap
    /\ client_last_message = EmptyMap
    /\ pc = [c \in Conns |-> "new"]
    /\ room_code = [c \in Conns |-> 0]
    /\ bc = [c \in Conns |-> NoBcast]
    /\ broken = {}
    /\ nrecv = 0
    /\ ncreate = 0
    /\ rooms_named = 0
    /\ created = {}
    /\ had_connection = {}
    /\ connect_result = [c \in Conns |-> "none"]
    /\ last_bcast = NoOutcome
    /\ streak = [c \in Conns |-> 0]
    /\ streak_bcasts = [c \in Conns |-> 0]
    /\ last_payload = [c \in Conns |-> None]
    /\ last_recv = NoRecv

\* History of a client's checks: how many it has made, when the first and
\* the latest were made, how many were refused, whether the latest was
\* allowed, whether the first rate_limit + 1 fell within the window, and
\* whether more than the window passed between the latest and the one
\* before it.
NoChecks == [n |-> 0, first |-> 0, last |-> 0, rejected |-> 0, last_ok |-> TRUE,
             burst |-> FALSE, gap |-> FALSE]

\* The limiter as MetricsManager.__init__ leaves it.
RateIdle ==
    /\ client_requests = EmptyMap
    /\ clock = 0
    /\ checks = [c \in Clients |-> NoChecks]
    /\ accepted = [c \in Clients |-> << >>]

\* The metrics, the persistence and the metrics feed before any frame: no
\* request or error counted, no save task, an empty database, no subscriber.
NoSave == [done |-> FALSE, ret |-> FALSE, wrote |-> FALSE, blocked |-> FALSE,
           original |-> NoValue, translated |-> NoValue]
NoTick == [done |-> FALSE, built |-> FALSE, sent |-> {}]
\* A message given to broadcast_to_room: its 'type' and 'status' ("" for a
\* key it does not have), its texts, and its flags.
Message(type, status, original, translated, is_partial, cache_hit) ==
    [type |-> type, status |-> status, original |-> original, translated |-> translated,
     is_partial |-> is_partial, cache_hit |-> cache_hit]
\* ---------------------------------------------------------------------
\* MetricsManager: the history of samples and the rolling windows.
\* The deques of 10000 samples and of 1000 values are scaled to
\* HistoryMaxLen and WindowMaxLen; durations are whole milliseconds.
\* ---------------------------------------------------------------------
TranslationMetrics(preprocessing_time_ms, translation_time_ms, cache_hit) ==
    [preprocessing_time_ms |-> preprocessing_time_ms,
     translation_time_ms |-> translation_time_ms, cache_hit |-> cache_hit]

NoStats == [translation_time_percentiles |-> EmptyMap,
            preprocessing_time_percentiles |-> EmptyMap, asked |-> FALSE]

StatsIdle ==
    /\ translation_metrics = << >>
    /\ performance_data = [translation_times |-> << >>, preprocessing_times |-> << >>,
                           cache_hits |-> << >>]
    /\ last_stats = NoStats

\* deque.append with no element leaving
append_unbounded(q, maxlen, x) == Append(q, x)

\* deque.append on a deque with maxlen: the oldest element leaves when full
append_maxlen(q, maxlen, x) ==
    IF Len(q) >= maxlen THEN Append(Tail(q), x) ELSE Append(q, x)

\* record_translation: the sample, its values, and the counter

record_translation(metrics) ==
    /\ translation_metrics' = append_maxlen(translation_metrics, HistoryMaxLen, metrics)
    /\ performance_data' =
         [translation_times |-> append_maxlen(performance_data.translation_times,
                                             WindowMaxLen, metrics.translation_time_ms),
          preprocessing_times |-> append_maxlen(performance_data.preprocessing_times,
                                               WindowMaxLen, metrics.preprocessing_time_ms),
          cache_hits |-> append_maxlen(performance_data.cache_hits,
                                      WindowMaxLen, metrics.cache_hit)]
    /\ total_requests' = total_requests + 1

\* The sample translate_text hands to process_translation_message. Its
\* durations are differences of time.time(), the clock of the model, which
\* no step of a handler advances.
MetricsOf(cache_hit) == TranslationMetrics(0, 0, cache_hit)

Minimum(xs) ==
    CHOOSE x \in {xs[i] : i \in DOMAIN xs} : \A i \in DOMAIN xs : x <= xs[i]

DropAt(xs, i) == SubSeq(xs, 1, i - 1) \o SubSeq(xs, i + 1, Len(xs))

\* sorted(data), ascending
RECURSIVE sorted(_)
sorted(xs) ==
    IF xs = << >> THEN << >>
    ELSE LET i == CHOOSE j \in DOMAIN xs : xs[j] = Minimum(xs)
         IN  <<xs[i]>> \o sorted(DropAt(xs, i))

Percents == {50, 90, 95, 99}

\* sorted_data[int(n * 0.5)] and so on: Python sequences count from 0,
\* and int(n * p / 100) is n * p \div 100 for every n up to the capacity
calculate_percentiles(xs) ==
    IF xs = << >> THEN [p \in Percents |-> 0]
    ELSE LET sorted_data == sorted(xs)
             n == Len(sorted_data)
         IN  [p \in Percents |-> sorted_data[((n * p) \div 100) + 1]]

get_detailed_stats ==
    [translation_time_percentiles |->
         calculate_percentiles(performance_data.translation_times),
     preprocessing_time_percentiles |->
         calculate_percentiles(performance_data.preprocessing_times),
     asked |-> TRUE]


NoMessage == Message("", "", NoValue, NoValue, FALSE, FALSE)

PipeIdle ==
    /\ data = [c \in Conns |-> None]
    /\ stages = [c \in Conns |-> << >>]
    /\ reply = [c \in Conns |-> "none"]
    /\ response = [c \in Conns |-> NoMessage]
    /\ total_requests = 0
    /\ StatsIdle
    /\ total_errors = 0
    /\ saves = {}
    /\ db = EmptyMap
    /\ last_save = NoSave
    /\ metrics_connections = {}
    /\ nticks = 0
    /\ last_tick = NoTick
    /\ path = [c \in Conns |-> ""]

Init ==
    /\ max_connections \in Capacities
    /\ RelayIdle
    /\ rate_limit = 1
    /\ RateIdle
    /\ EngineIdle(MaxCacheSize)
    /\ PipeIdle

\* Room codes are interchangeable: the next code never used before is the
\* next number.
NameRoom(room) ==
    /\ room <= rooms_named + 1
    /\ rooms_named' = IF room > rooms_named THEN room ELSE rooms_named

\* api/routes.py create_room: a code no room in active_connections has, the
\* language validated, then set_room_language.
create_room(room, language) ==
    /\ UNCHANGED <<rateVars, cacheVars, last_recv, pipeVars>>
    /\ room \notin DOMAIN active_connections
    /\ NameRoom(room)
    /\ ncreate' = ncreate + 1
    /\ SetRegistry(set_room_language(Registry, room, language))
    /\ created' = created \cup {room}
    /\ had_connection' = had_connection \ {room}
    /\ UNCHANGED <<max_connections, pc, room_code, bc, broken, nrecv,
                   connect_result, last_bcast, streak, streak_bcasts, last_payload>>

CreateRoom(room, language) == ncreate < MaxCreates /\ create_room(room, language)

\* websocket_endpoint up to its first receive_text: manager.connect, and the
\* return when it is refused.  Connections are numbered in the order in
\* which they arrive.
Endpoint(c, room) ==
    /\ pc[c] = "new"
    /\ \A d \in Conns : d < c => pc[d] # "new"
    /\ NameRoom(room)
    /\ LET res == connect(Registry, c, room, max_connections)
       IN /\ SetRegistry(res.reg)
          /\ pc' = [pc EXCEPT ![c] = IF res.ret THEN "recv" ELSE "done"]
          /\ had_connection' = IF res.ret THEN had_connection \cup {room}
                               ELSE had_connection
          /\ connect_result' = [connect_result EXCEPT ![c] =
                                   IF res.ret THEN "accepted" ELSE "rejected"]
    /\ room_code' = [room_code EXCEPT ![c] = room]
    /\ UNCHANGED <<max_connections, bc, broken, nrecv, ncreate, created, last_bcast,
                   streak, streak_bcasts, last_payload>>

\* a client opens its websocket at the path of a room
Connect(c, room) ==
    /\ Endpoint(c, room)
    /\ UNCHANGED <<rateVars, cacheVars, last_recv, pipeVars>>

\* The peer's transport fails: from now on a send_json to c raises.  Frames
\* the peer sent before are still queued for receive_text.
TransportBreak(c) ==
    /\ UNCHANGED <<rateVars, cacheVars, last_recv, pipeVars>>
    /\ pc[c] \in {"recv", "xlate", "partial", "delete", "send", "ack", "sleep"}
    /\ c \notin broken
    /\ Cardinality(broken) < MaxBreaks
    /\ broken' = broken \cup {c}
    /\ UNCHANGED <<max_connections, regVars, pc, room_code, bc, nrecv, ncreate,
                   rooms_named, created, had_connection, connect_result, last_bcast, streak,
                   streak_bcasts, last_payload>>

\* receive_text raises WebSocketDisconnect: manager.disconnect, and the
\* coroutine returns.
ClientDisconnect(c) ==
    /\ UNCHANGED <<rateVars, cacheVars, last_recv, pipeVars>>
    /\ pc[c] = "recv"
    /\ LET reg == disconnect(Registry, c, room_code[c])
       IN /\ SetRegistry(reg)
          /\ bc' = MarkStale(bc, Registry, reg)
    /\ pc' = [pc EXCEPT ![c] = "done"]
    /\ UNCHANGED <<max_connections, room_code, broken, nrecv, ncreate, rooms_named,
                   created, had_connection, connect_result, last_bcast, streak, streak_bcasts,
                   last_payload>>

\* The loop body from is_duplicate_message on, for the frame f, up to the
\* next await.  translate_text returns without suspending on a cache hit
\* and awaits the model otherwise.
Payload(c, f, reg) ==
    LET d == is_duplicate_message(reg, c, f)
        same == last_payload[c] = f
        sb == IF same THEN streak_bcasts ELSE [streak_bcasts EXCEPT ![c] = 0]
    IN /\ last_payload' = [last_payload EXCEPT ![c] = f]
       /\ streak' = [streak EXCEPT ![c] = IF same THEN 2 ELSE 1]
       /\ IF d.ret
          THEN /\ SetRegistry(d.reg)
               /\ streak_bcasts' = sb
               /\ UNCHANGED <<pc, bc, last_bcast>>
          ELSE \/ /\ SetRegistry(d.reg)
                  /\ streak_bcasts' = sb
                  /\ pc' = [pc EXCEPT ![c] = "xlate"]
                  /\ UNCHANGED <<bc, last_bcast>>
               \/ CallBroadcast(c, d.reg, "translation", sb)

\* The reply process_control_json sends to the sender c for json_data: the
\* ack of a language frame that carries a language, the pong of a ping;
\* "failed" when the send raises, "none" when it sends nothing.
Reply(c, json_data) ==
    IF json_data.type = "language" /\ json_data.val # ""
    THEN IF c \in broken THEN "failed" ELSE "ack"
    ELSE IF json_data.type = "ping"
    THEN IF c \in broken THEN "failed" ELSE "pong"
    ELSE "none"

\* The turn of the receive loop ends with handle_control_message returning
\* True: the registry is reg, and the handler awaits the next frame.
Handled(reg) ==
    /\ SetRegistry(reg)
    /\ UNCHANGED <<pc, bc, last_bcast, streak, streak_bcasts, last_payload>>

\* One turn of the receive loop: handle_control_message, and for a frame it
\* does not handle the payload path.  A language frame or a ping whose
\* reply cannot be sent raises inside process_control_json,
\* handle_control_message catches it and returns False, and the frame goes
\* on as a payload.  process_partial_speech translates the frame's text and
\* broadcasts the result, and keeps its errors to itself.
Receive(c, f) ==
    /\ UNCHANGED <<rateVars, cacheVars, pipeVars>>
    /\ pc[c] = "recv"
    /\ nrecv < MaxFrames
    /\ nrecv' = nrecv + 1
    /\ LET json_data == control_json(f)
       IN CASE json_data.type = "language" ->
                 IF json_data.val # ""
                 THEN LET reg == set_room_language(Registry, room_code[c], json_data.val)
                      IN IF Reply(c, json_data) = "ack" THEN Handled(reg)
                         ELSE Payload(c, f, reg)
                 ELSE Handled(Registry)
            [] json_data.type = "ping" ->
                 IF Reply(c, json_data) = "pong" THEN Handled(Registry)
                 ELSE Payload(c, f, Registry)
            [] json_data.type = "partial_speech" ->
                 IF json_data.val # ""
                 THEN /\ UNCHANGED <<streak, last_payload>>
                      /\ \/ /\ pc' = [pc EXCEPT ![c] = "partial"]
                            /\ UNCHANGED <<regVars, bc, last_bcast, streak_bcasts>>
                         \/ CallBroadcast(c, Registry, "partial", streak_bcasts)
                 ELSE Handled(Registry)
            [] OTHER -> Payload(c, f, Registry)
    /\ UNCHANGED <<max_connections, room_code, broken, ncreate, rooms_named, created,
                   had_connection, connect_result>>

\* translate_text returns to process_translation_message ("xlate") or to
\* process_partial_speech ("partial"); the call of broadcast_to_room
\* follows without an await.
TranslateDone(c) ==
    /\ UNCHANGED <<rateVars, cacheVars, last_recv, pipeVars>>
    /\ pc[c] \in {"xlate", "partial"}
    /\ CallBroadcast(c, Registry, IF pc[c] = "xlate" THEN "translation" ELSE "partial",
                     streak_bcasts)
    /\ UNCHANGED <<max_connections, room_code, broken, nrecv, ncreate, rooms_named,
                   created, had_connection, connect_result, streak, last_payload>>

\* Where the handler is once its broadcast_to_room call has returned or
\* raised: process_translation_message and process_partial_speech catch the
\* error and the receive loop goes on ("recv"); process_room_closure goes
\* on to the send of its ack ("ack"), and its error goes up to
\* handle_control_message ("fall").
AfterBroadcast(kind, raised) ==
    IF kind = "closure" THEN IF raised THEN "fall" ELSE "ack"
    ELSE "recv"

\* The awaited send_json of a broadcast returns or raises, and the loop goes
\* on to its next await or to its end.  A connection that joined the set
\* while its size stayed the same may or may not be visited.  After a
\* RuntimeError process_translation_message reports the error to the sender
\* and the receive loop goes on.
SendStep(c) ==
    /\ UNCHANGED <<rateVars, cacheVars, last_recv>>
    /\ pc[c] = "send"
    /\ LET b0 == bc[c]
           b == IF b0.target \in broken
                THEN [b0 EXCEPT !.failed = @ \cup {b0.target}]
                ELSE [b0 EXCEPT !.ok = @ \cup {b0.target}]
           live == IF b.stale THEN {} ELSE active_connections[b.room]
           rest == live \ b.visited
       IN IF Cardinality(live) # b.used
          THEN /\ bc' = [bc EXCEPT ![c] = NoBcast]
               /\ pc' = [pc EXCEPT ![c] = AfterBroadcast(b.kind, TRUE)]
               /\ last_bcast' = Outcome(b, TRUE, Members(Registry, b.room),
                                        Members(Registry, b.room))
               /\ UNCHANGED regVars
          ELSE \/ /\ rest # {}
                  /\ \E t \in rest :
                        bc' = [bc EXCEPT ![c] = [b EXCEPT !.target = t,
                                                          !.visited = @ \cup {t}]]
                  /\ UNCHANGED <<pc, last_bcast, regVars>>
               \/ /\ rest \cap b.start = {}
                  /\ LET reg == disconnect_all(Registry, b.failed, b.room)
                     IN /\ SetRegistry(reg)
                        /\ bc' = MarkStale([bc EXCEPT ![c] = NoBcast], Registry, reg)
                        /\ last_bcast' = Outcome(b, FALSE, Members(Registry, b.room),
                                                 Members(reg, b.room))
                  /\ pc' = [pc EXCEPT ![c] = AfterBroadcast(b.kind, FALSE)]
    /\ UNCHANGED <<max_connections, room_code, broken, nrecv, ncreate, rooms_named,
                   created, had_connection, connect_result, streak, streak_bcasts,
                   last_payload>>

\* What the turn of the receive loop for the frame f of c comes to.
Received(c, f) ==
    LET json_data == control_json(f)
    IN [conn |-> c, frame |-> f, control |-> json_data.type \in ControlTypes,
        handled |-> json_data.type \in ControlTypes /\ Reply(c, json_data) # "failed",
        reply |-> Reply(c, json_data)]

\* api/routes.py set_room_language: the language validated, the room looked
\* up in active_connections, then manager.set_room_language.
SetRoomLanguage(room, language) ==
    /\ UNCHANGED <<rateVars, cacheVars, last_recv, pipeVars>>
    /\ language \in Languages
    /\ room \in DOMAIN active_connections
    /\ SetRegistry(set_room_language(Registry, room, language))
    /\ UNCHANGED <<max_connections, pc, room_code, bc, broken, nrecv, ncreate,
                   rooms_named, created, had_connection, connect_result, last_bcast,
                   streak, streak_bcasts, last_payload>>

Next ==
    \/ \E r \in Rooms, l \in Languages : CreateRoom(r, l)
    \/ \E c \in Conns, r \in Rooms : Connect(c, r)
    \/ \E c \in Conns : TransportBreak(c)
    \/ \E c \in Conns : ClientDisconnect(c)
    \/ \E c \in Conns, f \in Frames : Receive(c, f) /\ UNCHANGED last_recv
    \/ \E c \in Conns : TranslateDone(c)
    \/ \E c \in Conns : SendStep(c) /\ UNCHANGED pipeVars

Spec == Init /\ [][Next]_vars

\* The rooms of the HTTP API: rooms made one after another by create_room,
\* with clients that connect to them and leave.
NextRooms ==
    \/ \E r \in Rooms, l \in Languages : ncreate < MaxRoomsMade /\ create_room(r, l)
    \/ \E c \in Conns, r \in Rooms : Connect(c, r)
    \/ \E c \in Conns : ClientDisconnect(c)

SpecRooms == Init /\ [][NextRooms]_vars

(***************************************************************************)
(* The control protocol: the frames of ControlFrames, the first            *)
(* MaxControlFrames of them, with the set-language route of the HTTP API.  *)
(***************************************************************************)
InitControl ==
    /\ max_connections = MaxCapacity
    /\ RelayIdle
    /\ rate_limit = 1
    /\ RateIdle
    /\ EngineIdle(MaxCacheSize)
    /\ PipeIdle

NextControl ==
    \/ \E r \in Rooms, l \in Languages : SetRoomLanguage(r, l)
    \/ \E c \in Conns, r \in Rooms : Connect(c, r)
    \/ \E c \in Conns : TransportBreak(c)
    \/ \E c \in Conns : ClientDisconnect(c)
    \/ \E c \in Conns, f \in ControlFrames :
          /\ nrecv < MaxControlFrames
          /\ Receive(c, f)
          /\ last_recv' = Received(c, f)
    \/ \E c \in Conns : TranslateDone(c)
    \/ \E c \in Conns : SendStep(c) /\ UNCHANGED pipeVars

SpecControl == InitControl /\ [][NextControl]_vars

(***************************************************************************)
(* MetricsManager.check_rate_limit.  A client's queue is a deque with      *)
(* maxlen DequeMaxLen: an append to a full deque drops its oldest entry.   *)
(***************************************************************************)
\* the expiry loop with the age test written >= instead of >
RECURSIVE expire_at_window(_, _)
expire_at_window(queue, now) ==
    IF Len(queue) > 0 /\ now - Head(queue) >= Window
    THEN expire_at_window(Tail(queue), now)
    ELSE queue

\* while client_queue and now - client_queue[0] > 60: client_queue.popleft()
RECURSIVE expire(_, _)
expire(queue, now) ==
    IF Len(queue) > 0 /\ now - Head(queue) > Window
    THEN expire(Tail(queue), now)
    ELSE queue

\* deque.append on a deque with maxlen
deque_append(queue, x) ==
    IF Len(queue) >= DequeMaxLen THEN Append(Tail(queue), x) ELSE Append(queue, x)

\* check_rate_limit with the limit test written > instead of >=
check_rate_limit_admits_at_limit(queue, now, limit) ==
    LET q == expire(queue, now)
    IN IF Len(q) > limit
       THEN [queue |-> q, ret |-> FALSE]
       ELSE [queue |-> deque_append(q, now), ret |-> TRUE]

\* check_rate_limit on the client's queue: the queue it leaves and its
\* return value.
check_rate_limit(queue, now, limit) ==
    LET q == expire(queue, now)
    IN IF Len(q) >= limit
       THEN [queue |-> q, ret |-> FALSE]
       ELSE [queue |-> deque_append(q, now), ret |-> TRUE]

\* self.client_requests[client_id] of the defaultdict
QueueOf(client) ==
    IF client \in DOMAIN client_requests THEN client_requests[client] ELSE << >>

\* A limit above the capacity of the deque is explored with one client and
\* with time steps longer than the window; the limits up to MaxLimit with
\* every client and every step.
Flood == rate_limit > MaxLimit
ActiveClients == IF Flood THEN {1} ELSE Clients
Steps == IF Flood THEN {Window + 1}
         ELSE {Window \div 2, Window \div 2 + 1, Window + 1}

InWindow(stamps, now) == SelectSeq(stamps, LAMBDA t : now - t <= Window)

\* One call of check_rate_limit(client_id).
Check(client) ==
    /\ client \in ActiveClients
    /\ checks[client].n < rate_limit + MaxExtraChecks
    /\ LET r == check_rate_limit(QueueOf(client), clock, rate_limit)
           k == checks[client]
       IN /\ client_requests' = DictSet(client_requests, client, r.queue)
          /\ checks' = [checks EXCEPT ![client] =
                 [n |-> k.n + 1,
                  first |-> IF k.n = 0 THEN clock ELSE k.first,
                  last |-> clock,
                  rejected |-> k.rejected + (IF r.ret THEN 0 ELSE 1),
                  last_ok |-> r.ret,
                  burst |-> IF k.n = rate_limit THEN clock - k.first <= Window
                            ELSE k.burst,
                  gap |-> k.n > 0 /\ clock - k.last > Window]]
          /\ accepted' = [accepted EXCEPT ![client] =
                 IF r.ret THEN Append(InWindow(@, clock), clock)
                 ELSE InWindow(@, clock)]
    /\ UNCHANGED <<rate_limit, clock, relayVars, cacheVars, pipeVars>>

\* time.time() moves on.
Advance(d) ==
    /\ clock + d <= MaxClock
    /\ clock' = clock + d
    /\ accepted' = [c \in Clients |-> InWindow(accepted[c], clock + d)]
    /\ UNCHANGED <<rate_limit, client_requests, checks, relayVars, cacheVars, pipeVars>>

InitRate ==
    /\ max_connections = MaxCapacity
    /\ RelayIdle
    /\ rate_limit \in (1..MaxLimit) \cup {DequeMaxLen + 1}
    /\ RateIdle
    /\ EngineIdle(MaxCacheSize)
    /\ PipeIdle

NextRate ==
    \/ \E c \in Clients : Check(c)
    \/ \E d \in Steps : Advance(d)

SpecRate == InitRate /\ [][NextRate]_vars

(***************************************************************************)
(* The translation engine on its own: translate_text calls of up to        *)
(* NumConns concurrent callers, and clear_cache.  The cache object is      *)
(* reached through these two only.                                         *)
(***************************************************************************)
\* Texts callers ask for: a seed phrase shouted and padded, a seed phrase
\* short of its last word (3 of 4 words), a seed phrase short of two words
\* (3 of 5), a text that resembles no phrase, and a seed phrase said three
\* times over (65 characters); two of them also as partial speech.
HaloShouted == Text(IdHalo.words, "upper", TRUE, 23)
HaloShort == Text(<<"halo", "nama", "saya">>, "lower", FALSE, 14)
TerimaShort == Text(<<"terima", "kasih", "atas">>, "lower", FALSE, 17)
ApaKabar == Text(<<"apa", "kabar">>, "lower", FALSE, 9)
HaloThrice == Text(IdHalo.words \o IdHalo.words \o IdHalo.words, "mixed", FALSE, 65)
Requests ==
    {[text |-> t, source |-> "id", is_partial |-> FALSE] :
        t \in {HaloShouted, HaloShort, TerimaShort, ApaKabar, HaloThrice}}
    \cup {[text |-> t, source |-> "id", is_partial |-> TRUE] : t \in {HaloShort, ApaKabar}}
    \cup {[text |-> EnHello, source |-> "en", is_partial |-> FALSE]}

\* whether get_model_and_tokenizer has a model for the pair: only a known
\* pair can have one, and it has one once the model is loaded
Loaded(source, target) == IF <<source, target>> \in ModelPairs THEN BOOLEAN ELSE {FALSE}

\* The engine's state after translate_text has run for caller c up to its
\* return or to the await of the model, with the outcome r.
EngineCall(c, text, source, target, is_partial, r) ==
    /\ ntranslate' = ntranslate + 1
    /\ cache' = r.cache
    /\ used' = Touch(used, naccess, r.touched, r.cache)
    /\ naccess' = naccess + Len(r.touched)
    /\ IF r.suspended
       THEN /\ tr' = [tr EXCEPT ![c] =
                  [active |-> TRUE, text |-> text, source |-> source,
                   target |-> target, is_partial |-> is_partial,
                   fresh |-> ntranslate = 0]]
            /\ UNCHANGED last_result
       ELSE /\ tr' = tr
            /\ last_result' =
                  [done |-> TRUE, text |-> text, source |-> source,
                   target |-> target, is_partial |-> is_partial,
                   translated |-> r.translated, cache_hit |-> r.cache_hit,
                   external |-> FALSE, fresh |-> ntranslate = 0]

\* What _perform_translation returns to the suspended call of c: the decoded
\* output of the model, or the cleaned text when model.generate times out
\* or raises.
ModelResults(c) ==
    {ModelOutput(clean_text(tr[c].text), tr[c].target), clean_text(tr[c].text)}

\* the return of translate_text with the result cached for a partial call too
EngineReturnCachesPartial(c, translated) ==
    LET cache_key == make_cache_key(tr[c].text, tr[c].source, tr[c].target)
        entries == put(cache, cache_key, translated, max_size)
    IN /\ cache' = entries
       /\ used' = Touch(used, naccess, <<cache_key>>, entries)
       /\ naccess' = naccess + 1
       /\ last_result' =
             [done |-> TRUE, text |-> tr[c].text, source |-> tr[c].source,
              target |-> tr[c].target, is_partial |-> tr[c].is_partial,
              translated |-> translated, cache_hit |-> FALSE,
              external |-> TRUE, fresh |-> tr[c].fresh]
       /\ tr' = [tr EXCEPT ![c] = NoCall]

\* The engine's state after the suspended translate_text call of c has
\* resumed with translated and returned: the result is cached unless the
\* call is partial.
EngineReturn(c, translated) ==
    LET cache_key == make_cache_key(tr[c].text, tr[c].source, tr[c].target)
        touched == IF tr[c].is_partial THEN << >> ELSE <<cache_key>>
        entries == IF tr[c].is_partial THEN cache
                   ELSE put(cache, cache_key, translated, max_size)
    IN /\ cache' = entries
       /\ used' = Touch(used, naccess, touched, entries)
       /\ naccess' = naccess + Len(touched)
       /\ last_result' =
             [done |-> TRUE, text |-> tr[c].text, source |-> tr[c].source,
              target |-> tr[c].target, is_partial |-> tr[c].is_partial,
              translated |-> translated, cache_hit |-> FALSE,
              external |-> TRUE, fresh |-> tr[c].fresh]
       /\ tr' = [tr EXCEPT ![c] = NoCall]

\* A caller calls translate_text(text, source, target_lang(source), is_partial).
\* Callers are interchangeable: the lowest one that is free makes the call.
TranslateCall(c, text, source, is_partial) ==
    /\ ~tr[c].active
    /\ \A d \in Conns : d < c => tr[d].active
    /\ ntranslate < MaxTranslations
    /\ \E loaded \in Loaded(source, target_lang(source)) :
          EngineCall(c, text, source, target_lang(source), is_partial,
                     translate_text(cache, max_size, text, source, target_lang(source),
                                    is_partial, loaded))
    /\ UNCHANGED <<max_size, relayVars, rateVars, pipeVars>>

\* The awaited model.generate returns and the text is decoded, or it times
\* out or raises and _perform_translation returns the cleaned text; the
\* result is cached unless the call is partial.
TranslateReturn(c) ==
    /\ tr[c].active
    /\ \E translated \in ModelResults(c) : EngineReturn(c, translated)
    /\ UNCHANGED <<max_size, ntranslate, relayVars, rateVars, pipeVars>>

\* TranslationEngine.clear_cache: clear, then _initialize_cache
ClearCache ==
    /\ naccess + NumSeedEntries <= MaxAccesses
    /\ cache' = initialize_cache(clear(cache), max_size, 1)
    /\ used' = Touch(<< >>, naccess, SeedKeys, initialize_cache(<< >>, max_size, 1))
    /\ naccess' = naccess + NumSeedEntries
    /\ UNCHANGED <<max_size, tr, ntranslate, last_result, relayVars, rateVars, pipeVars>>

InitCache ==
    /\ max_connections = MaxCapacity
    /\ RelayIdle
    /\ rate_limit = 1
    /\ RateIdle
    /\ \E max \in 1..MaxCacheSize : EngineIdle(max)
    /\ PipeIdle

NextCache ==
    \/ \E c \in Conns, q \in Requests : TranslateCall(c, q.text, q.source, q.is_partial)
    \/ \E c \in Conns : TranslateReturn(c)
    \/ ClearCache

SpecCache == InitCache /\ [][NextCache]_vars

(***************************************************************************)
(* save_translation on its own: one call for every pair of an original and *)
(* a translated text of SaveTexts.                                         *)
(***************************************************************************)
\* Texts with and without markers: a marker as a word of its own in upper
\* and in lower case, inside a longer word, in a JSON body, and the empty
\* text.
SaveTexts ==
    {ApaKabar, HaloShort,
     Text(<< >>, "lower", FALSE, 0),
     Text(<<"control:">>, "upper", FALSE, 8),
     Text(<<"apa", "ping">>, "upper", FALSE, 8),
     Text(<<"shopping">>, "lower", FALSE, 8),
     Text(<<"languages">>, "mixed", TRUE, 11),
     Text(<<"{\"type\":\"x\"}">>, "lower", FALSE, 12)}

InitSave ==
    /\ max_connections = MaxCapacity
    /\ RelayIdle
    /\ rate_limit = 1
    /\ RateIdle
    /\ EngineIdle(MaxCacheSize)
    /\ data = [c \in Conns |-> None]
    /\ stages = [c \in Conns |-> << >>]
    /\ reply = [c \in Conns |-> "none"]
    /\ response = [c \in Conns |-> NoMessage]
    /\ total_requests = 0
    /\ StatsIdle
    /\ total_errors = 0
    /\ \E o \in SaveTexts, t \in SaveTexts : saves = {SaveTask(1, 1, o, t)}
    /\ db = EmptyMap
    /\ last_save = NoSave
    /\ metrics_connections = {}
    /\ nticks = 0
    /\ last_tick = NoTick
    /\ path = [c \in Conns |-> ""]

NextSave == \E task \in saves : SaveStep(task)

SpecSave == InitSave /\ [][NextSave]_vars

(***************************************************************************)
(* The whole path of a frame: websocket_endpoint with the limiter, the     *)
(* engine, the metrics and the persistence behind it, and the control      *)
(* frames partial_speech and close_room.  stages[c] lists what the handler *)
(* of c has done for the frame it received last, in the order in which it  *)
(* did it.                                                                 *)
(***************************************************************************)
Placeholders == {"tekan tombol dan mulai berbicara", "Press the button and start speaking"}
TekanTombol == Text(<<"tekan", "tombol", "dan", "mulai", "berbicara">>, "lower", FALSE, 32)
Shopping == Text(<<"shopping">>, "lower", FALSE, 8)
CloseRoomJson == Text(<<"{\"type\":\"close_room\"}">>, "lower", FALSE, 21)

PipelineFrames ==
    {TextFrame("halo nama saya"), TextFrame("apa kabar"),
     TextFrame("tekan tombol dan mulai berbicara"), TextFrame("shopping"),
     Frame("", "partial_speech", "apa kabar")}
ClosureFrames == {Frame("", "close_room", "delete"), Frame("", "close_room", "keep")}

\* the text of a frame, as the engine and the persistence see it
TextOf(f) ==
    CASE f.val = "halo nama saya" -> HaloShort
      [] f.val = "apa kabar" -> ApaKabar
      [] f.val = "tekan tombol dan mulai berbicara" -> TekanTombol
      [] f.val = "shopping" -> Shopping
      [] OTHER -> CloseRoomJson

\* is_placeholder_message: data.strip() in placeholders
is_placeholder_message(f) == f.pre = "" /\ f.type = "text" /\ f.val \in Placeholders

\* What of translate_text has run when it returns or awaits the model: the
\* cache lookup, the fuzzy fallback, _perform_translation ("unavailable"
\* when there is no model for the pair), the cache store.
engine_stages(entries, text, source, target, is_partial, loaded) ==
    IF source = target \/ text.words = << >> THEN << >>
    ELSE LET cached == get(entries, make_cache_key(text, source, target))
             tried == text.len < 50 /\ ~is_partial
             fuzzy == try_fuzzy_match(cached.cache, text, source, target)
         IN <<"cache">> \o
            (IF Truthy(cached.ret) THEN << >>
             ELSE (IF tried THEN <<"fuzzy">> ELSE << >>) \o
                  (IF tried /\ Truthy(fuzzy.ret) THEN <<"store">>
                   ELSE <<"translate">> \o
                        (IF loaded THEN << >>
                         ELSE <<"unavailable">> \o
                              (IF is_partial THEN << >> ELSE <<"store">>))))

\* a frame sent to the handler's own client by send_acknowledgment or
\* send_error, which keep a failure of the send to themselves
Direct(c, kind) == IF c \in broken THEN "none" ELSE kind

Note(c, st, rep) ==
    /\ stages' = [stages EXCEPT ![c] = st]
    /\ reply' = [reply EXCEPT ![c] = rep]

\* the handler of c leaves its loop and its room instead of receiving on
ContinueDisconnected(c, reg) ==
    /\ SetRegistry(disconnect(reg, c, room_code[c]))
    /\ pc' = [pc EXCEPT ![c] = "done"]
    /\ UNCHANGED <<bc, last_bcast, streak_bcasts, response>>

\* The handler of c goes back to receive_text with the registry reg.
Continue(c, reg) ==
    /\ SetRegistry(reg)
    /\ pc' = [pc EXCEPT ![c] = "recv"]
    /\ UNCHANGED <<bc, last_bcast, streak_bcasts, response>>

\* The handler of c is suspended at position at with the registry reg.
Suspend(c, reg, at) ==
    /\ SetRegistry(reg)
    /\ pc' = [pc EXCEPT ![c] = at]
    /\ UNCHANGED <<bc, last_bcast, streak_bcasts, response>>

Broadcasting(c, reg, kind, msg) ==
    /\ CallBroadcast(c, reg, kind, streak_bcasts)
    /\ response' = [response EXCEPT ![c] = msg]

\* process_translation_message with the broadcast left out after the save
\* task is made
DeliverSaveOnly(c, reg, f, translated, cache_hit, st, rep) ==
    /\ record_translation(MetricsOf(cache_hit))
    /\ last_stats' = last_stats
    /\ total_errors' = total_errors
    /\ saves' = saves \cup {SaveTask(total_requests + 1, room_code[c], TextOf(f), translated)}
    /\ Continue(c, reg)
    /\ Note(c, st \o <<"metrics", "persist">>, rep)

\* process_translation_message after translate_text has returned:
\* record_translation, the save task, and the broadcast of the response.
Deliver(c, reg, f, translated, cache_hit, st, rep) ==
    /\ record_translation(MetricsOf(cache_hit))
    /\ last_stats' = last_stats
    /\ total_errors' = total_errors
    /\ saves' = saves \cup {SaveTask(total_requests + 1, room_code[c], TextOf(f), translated)}
    /\ Broadcasting(c, reg, "translation",
                    Message("", "ok", TextOf(f), translated, FALSE, cache_hit))
    /\ Note(c, st \o <<"metrics", "persist", "broadcast">>, rep)

\* process_partial_speech after translate_text has returned
DeliverPartial(c, reg, text, translated, st, rep) ==
    /\ UNCHANGED <<total_requests, statVars, total_errors, saves>>
    /\ Broadcasting(c, reg, "partial",
                    Message("partial_translation", "", text, translated, TRUE, FALSE))
    /\ Note(c, st \o <<"broadcast">>, rep)

\* process_translation_message up to its first await
Translate(c, f, reg, st, rep) ==
    LET source == get_room_language(reg, room_code[c])
        target == target_lang(source)
        text == TextOf(f)
    IN \E loaded \in Loaded(source, target) :
          LET r == translate_text(cache, max_size, text, source, target, FALSE, loaded)
              st2 == st \o engine_stages(cache, text, source, target, FALSE, loaded)
          IN /\ EngineCall(c, text, source, target, FALSE, r)
             /\ IF r.suspended
                THEN /\ Suspend(c, reg, "xlate")
                     /\ Note(c, st2, rep)
                     /\ UNCHANGED <<total_requests, statVars, total_errors, saves>>
                ELSE Deliver(c, reg, f, r.translated, r.cache_hit, st2, rep)

\* the loop body of websocket_endpoint with check_rate_limit called before
\* is_duplicate_message
PayloadPathRateFirst(c, f, reg, st, rep) ==
    LET d == is_duplicate_message(reg, c, f)
        r == check_rate_limit(QueueOf(c), clock, rate_limit)
    IN /\ client_requests' = DictSet(client_requests, c, r.queue)
       /\ IF ~r.ret \/ d.ret \/ is_placeholder_message(f)
          THEN /\ Continue(c, d.reg)
               /\ Note(c, st \o (IF ~r.ret THEN <<"rate", "limited">>
                                 ELSE IF d.ret THEN <<"rate", "dedupe", "duplicate">>
                                 ELSE <<"rate", "dedupe", "placeholder">>),
                       Direct(c, IF ~r.ret THEN "error"
                                 ELSE IF d.ret THEN "duplicate" ELSE "default_message"))
               /\ UNCHANGED <<cache, tr, ntranslate, used, naccess, last_result,
                              total_requests, statVars, total_errors, saves>>
          ELSE Translate(c, f, d.reg, st \o <<"rate", "dedupe">>, rep)

\* The loop body of websocket_endpoint from is_duplicate_message on, for
\* the frame f that handle_control_message has not handled, up to the next
\* await; st and rep are what the turn has done and sent before.
PayloadPath(c, f, reg, st, rep) ==
    LET d == is_duplicate_message(reg, c, f)
        r == check_rate_limit(QueueOf(c), clock, rate_limit)
    IN IF d.ret
       THEN /\ Continue(c, d.reg)
            /\ Note(c, st \o <<"dedupe", "duplicate">>, Direct(c, "duplicate"))
            /\ UNCHANGED <<client_requests, cache, tr, ntranslate, used, naccess,
                           last_result, total_requests, statVars, total_errors, saves>>
       ELSE IF is_placeholder_message(f)
       THEN /\ IF c \in broken
               THEN /\ SetRegistry(disconnect(d.reg, c, room_code[c]))
                    /\ bc' = MarkStale(bc, d.reg, disconnect(d.reg, c, room_code[c]))
                    /\ pc' = [pc EXCEPT ![c] = "done"]
                    /\ UNCHANGED <<last_bcast, streak_bcasts, response>>
                    /\ Note(c, st \o <<"dedupe", "placeholder">>, "none")
               ELSE /\ Continue(c, d.reg)
                    /\ Note(c, st \o <<"dedupe", "placeholder">>, "default_message")
            /\ UNCHANGED <<client_requests, cache, tr, ntranslate, used, naccess,
                           last_result, total_requests, statVars, total_errors, saves>>
       ELSE /\ client_requests' = DictSet(client_requests, c, r.queue)
            /\ IF ~r.ret
               THEN /\ Continue(c, d.reg)
                    /\ Note(c, st \o <<"dedupe", "rate", "limited">>, Direct(c, "error"))
                    /\ UNCHANGED <<cache, tr, ntranslate, used, naccess, last_result,
                                   total_requests, statVars, total_errors, saves>>
               ELSE Translate(c, f, d.reg, st \o <<"dedupe", "rate">>, rep)

\* process_partial_speech up to its first await: the text of the frame is
\* translated from the frame's language, 'id' when it names none.
PartialSpeech(c, json_data) ==
    LET text == TextOf(json_data)
        language == "id"
        target == target_lang(language)
    IN /\ UNCHANGED client_requests
       /\ \E loaded \in Loaded(language, target) :
             LET r == translate_text(cache, max_size, text, language, target, TRUE, loaded)
                 st == engine_stages(cache, text, language, target, TRUE, loaded)
             IN /\ EngineCall(c, text, language, target, TRUE, r)
                /\ IF r.suspended
                   THEN /\ Suspend(c, Registry, "partial")
                        /\ Note(c, st, "none")
                        /\ UNCHANGED <<total_requests, statVars, total_errors, saves>>
                   ELSE DeliverPartial(c, Registry, text, r.translated, st, "none")

\* the closure notice of process_room_closure
closure_message == Message("", "room_closed", NoValue, NoValue, FALSE, FALSE)

\* process_room_closure with the notice broadcast before the deletion
RoomClosureNoticeFirst(c, json_data) ==
    /\ UNCHANGED <<client_requests, cache, tr, ntranslate, used, naccess, last_result,
                   total_requests, statVars, total_errors, saves>>
    /\ Broadcasting(c, Registry, "closure", closure_message)
    /\ Note(c, IF json_data.val = "delete" THEN <<"delete_call", "broadcast">>
               ELSE <<"broadcast">>, "none")

\* process_room_closure up to its first await: the call of delete_room if
\* delete_data is set, else the broadcast of the notice.
RoomClosure(c, json_data) ==
    /\ UNCHANGED <<client_requests, cache, tr, ntranslate, used, naccess, last_result,
                   total_requests, statVars, total_errors, saves>>
    /\ IF json_data.val = "delete"
       THEN /\ Suspend(c, Registry, "delete")
            /\ Note(c, <<"delete_call">>, "none")
       ELSE /\ Broadcasting(c, Registry, "closure", closure_message)
            /\ Note(c, <<"broadcast">>, "none")

\* One turn of the receive loop of c for the frame f, up to its next await.
Turn(c, f) ==
    /\ pc[c] = "recv"
    /\ nrecv < MaxTurns
    /\ nrecv' = nrecv + 1
    /\ data' = [data EXCEPT ![c] = f]
    /\ LET json_data == control_json(f)
       IN CASE json_data.type = "partial_speech" -> PartialSpeech(c, json_data)
            [] json_data.type = "close_room" -> RoomClosure(c, json_data)
            [] OTHER -> PayloadPath(c, f, Registry, << >>, "none")
    /\ last_recv' = [NoRecv EXCEPT !.conn = c, !.frame = f]
    /\ UNCHANGED <<max_connections, room_code, broken, ncreate, rooms_named, created,
                   had_connection, connect_result, streak, last_payload,
                   rate_limit, clock, checks, accepted, max_size, db, last_save,
                   feedVars>>

\* The awaited model call of c returns, translate_text returns, and the
\* caller goes on to its broadcast.
Translated(c) ==
    /\ pc[c] \in {"xlate", "partial"}
    /\ \E translated \in ModelResults(c) :
          LET failed == translated # ModelOutput(clean_text(tr[c].text), tr[c].target)
              st == stages[c] \o (IF failed THEN <<"failed">> ELSE << >>)
          IN /\ EngineReturn(c, translated)
             /\ IF pc[c] = "xlate"
                THEN Deliver(c, Registry, data[c], translated, FALSE, st \o <<"store">>,
                             reply[c])
                ELSE DeliverPartial(c, Registry, tr[c].text, translated, st, reply[c])
    /\ UNCHANGED <<max_connections, room_code, broken, nrecv, ncreate, rooms_named, created,
                   had_connection, connect_result, streak, last_payload, last_recv,
                   rateVars, max_size, ntranslate, data, db, last_save,
                   feedVars>>

\* attempts of _delete_with_retry made so far for the close_room of c
DeleteAttempts(c) == Len(SelectSeq(stages[c], LAMBDA x : x = "delete_failed"))

\* One attempt of _delete_with_retry for the close_room frame of c: the
\* record of the room is deleted, or the attempt raises; delete_room
\* returns after a deletion or after MaxRetries failed attempts, and the
\* notice is broadcast.
DeleteStep(c) ==
    /\ pc[c] = "delete"
    /\ \/ /\ db' = DictDel(db, room_code[c])
          /\ Broadcasting(c, Registry, "closure", closure_message)
          /\ Note(c, stages[c] \o <<"deleted", "broadcast">>, reply[c])
       \/ /\ db' = db
          /\ IF DeleteAttempts(c) + 1 < MaxRetries
             THEN /\ Note(c, Append(stages[c], "delete_failed"), reply[c])
                  /\ UNCHANGED <<regVars, pc, bc, last_bcast, streak_bcasts, response>>
             ELSE /\ Broadcasting(c, Registry, "closure", closure_message)
                  /\ Note(c, stages[c] \o <<"delete_failed", "gave_up", "broadcast">>,
                          reply[c])
    /\ UNCHANGED <<max_connections, room_code, broken, nrecv, ncreate, rooms_named, created,
                   had_connection, connect_result, streak, last_payload, last_recv,
                   rateVars, cacheVars, data, total_requests, statVars, total_errors, saves,
                   last_save, feedVars>>

\* What a step of the broadcast of c leaves behind it: the send it made,
\* how the call ended ("raised", or returned with every member that stayed
\* throughout sent to, or with one of them missed), and for a broadcast
\* that raised in process_translation_message the record_error and the
\* send_error of its except clause.
Sent(c) ==
    LET ended == pc'[c] # "send"
        raised == ended /\ last_bcast'.error
        reported == raised /\ bc[c].kind = "translation"
    IN /\ stages' = [stages EXCEPT ![c] =
              @ \o <<IF bc[c].target \in broken THEN "send_failed" ELSE "sent">>
                \o (IF raised THEN <<"raised">>
                    ELSE IF ended
                    THEN <<IF last_bcast'.all_attempted THEN "attempted_all" ELSE "missed">>
                    ELSE << >>)]
       /\ total_errors' = IF reported THEN total_errors + 1 ELSE total_errors
       /\ reply' = IF reported THEN [reply EXCEPT ![c] = Direct(c, "error")] ELSE reply
       /\ UNCHANGED <<data, response, total_requests, statVars, saves, db, last_save,
                      feedVars>>

\* process_room_closure with the members of the room disconnected before
\* the ack is sent
AfterClosureEmptiesRoom(c) ==
    /\ pc[c] \in {"ack", "fall"}
    /\ IF pc[c] = "ack" /\ c \notin broken
       THEN /\ Continue(c, disconnect_all(Registry, Members(Registry, room_code[c]),
                                          room_code[c]))
            /\ Note(c, Append(stages[c], "ack"), "closed")
            /\ UNCHANGED <<client_requests, cache, tr, ntranslate, used, naccess,
                           last_result, total_requests, statVars, total_errors, saves>>
       ELSE PayloadPath(c, data[c], Registry, stages[c], "none")
    /\ UNCHANGED <<max_connections, room_code, broken, nrecv, ncreate, rooms_named, created,
                   had_connection, connect_result, streak, last_payload, last_recv,
                   rate_limit, clock, checks, accepted, max_size, data, db, last_save,
                   feedVars>>

\* process_room_closure after its broadcast: the awaited send of the ack to
\* the requester ("ack").  When that send raises, or when the broadcast
\* raised ("fall"), handle_control_message catches the error and returns
\* False, and the text of the frame goes on as a payload.
AfterClosure(c) ==
    /\ pc[c] \in {"ack", "fall"}
    /\ IF pc[c] = "ack" /\ c \notin broken
       THEN /\ Continue(c, Registry)
            /\ Note(c, Append(stages[c], "ack"), "closed")
            /\ UNCHANGED <<client_requests, cache, tr, ntranslate, used, naccess,
                           last_result, total_requests, statVars, total_errors, saves>>
       ELSE PayloadPath(c, data[c], Registry, stages[c], "none")
    /\ UNCHANGED <<max_connections, room_code, broken, nrecv, ncreate, rooms_named, created,
                   had_connection, connect_result, streak, last_payload, last_recv,
                   rate_limit, clock, checks, accepted, max_size, data, db, last_save,
                   feedVars>>

\* A handler whose broadcast has raised runs on to its next await before
\* any other coroutine runs.
Running == \E c \in Conns : pc[c] = "fall"

InitPipeline ==
    /\ max_connections = MaxCapacity
    /\ RelayIdle
    /\ rate_limit = 1
    /\ RateIdle
    /\ EngineIdle(MaxCacheSize)
    /\ PipeIdle

\* Payloads and partial speech of clients that stay connected to one room,
\* with the save tasks they start.
NextPipeline ==
    \/ \E c \in Conns : Connect(c, 1)
    \/ \E c \in Conns : TransportBreak(c)
    \/ \E c \in Conns, f \in PipelineFrames : Turn(c, f)
    \/ \E c \in Conns : Translated(c)
    \/ \E c \in Conns : SendStep(c) /\ Sent(c)
    \/ \E task \in saves : SaveStep(task)

SpecPipeline == InitPipeline /\ [][NextPipeline]_vars

\* close_room frames of clients that stay connected to one room.
NextClosure ==
    \/ ~Running /\ \E c \in Conns : Connect(c, 1)
    \/ ~Running /\ \E c \in Conns : TransportBreak(c)
    \/ ~Running /\ \E c \in Conns, f \in ClosureFrames : Turn(c, f)
    \/ ~Running /\ \E c \in Conns : Translated(c)
    \/ ~Running /\ \E c \in Conns : DeleteStep(c)
    \/ ~Running /\ \E c \in Conns : SendStep(c) /\ Sent(c)
    \/ \E c \in Conns : AfterClosure(c)

SpecClosure == InitPipeline /\ [][NextClosure]_vars

\* The writes and the deletions of the persistence: payloads with their
\* save tasks and close_room frames that delete the room's record.  A ready
\* task is run by the event loop, and an attempt returns or raises.
PersistFrames == {TextFrame("apa kabar"), Frame("", "close_room", "delete")}

NextPersist ==
    \/ \E c \in Conns : Connect(c, 1)
    \/ \E c \in Conns, f \in PersistFrames : Turn(c, f)
    \/ \E c \in Conns : Translated(c)
    \/ \E c \in Conns : DeleteStep(c)
    \/ \E c \in Conns : SendStep(c) /\ Sent(c)
    \/ \E c \in Conns : AfterClosure(c)
    \/ \E task \in saves : SaveStep(task)

SpecPersist ==
    /\ InitPipeline
    /\ [][NextPersist]_vars
    /\ WF_vars(\E task \in saves : SaveStep(task))
    /\ WF_vars(\E c \in Conns : DeleteStep(c))

\* A room in use after its closure: close_room frames that keep the data,
\* and payloads, of clients of one room whose transports may stop.
ReuseFrames == {TextFrame("apa kabar"), Frame("", "close_room", "keep")}

NextReuse ==
    \/ ~Running /\ \E c \in Conns : Connect(c, 1)
    \/ ~Running /\ \E c \in Conns : TransportBreak(c)
    \/ ~Running /\ \E c \in Conns, f \in ReuseFrames : Turn(c, f)
    \/ ~Running /\ \E c \in Conns : Translated(c)
    \/ ~Running /\ \E c \in Conns : SendStep(c) /\ Sent(c)
    \/ \E c \in Conns : AfterClosure(c)
    \/ ~Running /\ \E task \in saves : SaveStep(task)

SpecReuse == InitPipeline /\ [][NextReuse]_vars

\* The statistics: samples recorded one after another, and the detailed
\* statistics read between them.
\* The samples translate_text makes: a hit has no preprocessing time, and
\* a fuzzy hit has an estimated translation time.
Samples ==
    {TranslationMetrics(0, mt, TRUE) : mt \in 0..MaxDuration}
    \cup {TranslationMetrics(pre, mt, FALSE) : pre \in 0..1, mt \in 0..MaxDuration}

RecordTranslation(metrics) ==
    /\ total_requests < MaxRecords
    /\ record_translation(metrics)
    /\ UNCHANGED <<relayVars, rateVars, cacheVars, data, stages, reply, response,
                   last_stats, total_errors, saves, db, last_save, feedVars>>

GetDetailedStats ==
    /\ last_stats' = get_detailed_stats
    /\ UNCHANGED <<relayVars, rateVars, cacheVars, data, stages, reply, response,
                   total_requests, translation_metrics, performance_data,
                   total_errors, saves, db, last_save, feedVars>>

NextStats ==
    \/ \E metrics \in Samples : RecordTranslation(metrics)
    \/ GetDetailedStats

SpecStats == InitPipeline /\ [][NextStats]_vars

(***************************************************************************)
(* Properties of the registry and of the broadcast.                        *)
(***************************************************************************)
\* The step is the call of manager.connect for connection c.
ConnectStep(c) == connect_result[c] = "none" /\ connect_result'[c] # "none"

CapacityInv ==
    \A r \in DOMAIN active_connections :
        Cardinality(active_connections[r]) <= max_connections

RejectAtMax ==
    \A c \in Conns :
        (ConnectStep(c)
           /\ Cardinality(Members(Registry, room_code'[c])) >= max_connections)
        => /\ connect_result'[c] = "rejected"
           /\ Members(Registry', room_code'[c]) = Members(Registry, room_code'[c])

\* C1: in every reachable state each room has at most MAX_CONNECTIONS_PER_ROOM
\* members, and a connect made while the room holds the maximum returns False
\* and leaves the room's member set as it was.
C1_RoomCapacity == []CapacityInv /\ [][RejectAtMax]_vars

\* C1 witness: a connect was refused by a room that holds the maximum.
C1_Witness ==
    \E c \in Conns :
        /\ connect_result[c] = "rejected"
        /\ max_connections >= 1
        /\ Cardinality(Members(Registry, room_code[c])) = max_connections
        /\ c \notin Members(Registry, room_code[c])

\* C2: a connect refused for capacity leaves the membership map (its keys
\* included), the language map and the last-payload map as they were, for
\* every configured maximum.
C2_RejectedConnectChangesNothing ==
    [][\A c \in Conns :
          (ConnectStep(c) /\ connect_result'[c] = "rejected") => regVars' = regVars]_vars

\* C3: a room code is in the registry (membership map or language map) iff
\* the room has a live connection, or was created explicitly and has had no
\* connection yet.
C3_RoomEntryIffLive ==
    \A r \in Rooms :
        (r \in DOMAIN active_connections \/ r \in DOMAIN room_languages)
        <=> (Members(Registry, r) # {} \/ (r \in created /\ r \notin had_connection))

\* C4: disconnect is idempotent (a second call, also for an absent
\* connection or room, leaves the registry as the first did), and when it
\* removes the last member the room entry and its language are deleted, so
\* get_room_language gives the default 'id'.
C4_DisconnectIdempotent ==
    \A ws \in Conns, r \in Rooms :
        LET once == disconnect(Registry, ws, r)
        IN /\ disconnect(once, ws, r) = once
           /\ Members(Registry, r) = {ws}
              => /\ r \notin DOMAIN once.ac
                 /\ r \notin DOMAIN once.rl
                 /\ get_room_language(once, r) = "id"

\* C4 witness: the last member of a created room, whose language was set,
\* has disconnected, and the room and its language are gone.
C4_Witness ==
    \E c \in Conns :
        /\ pc[c] = "done" /\ connect_result[c] = "accepted"
        /\ room_code[c] \in created
        /\ room_code[c] \notin DOMAIN active_connections
        /\ room_code[c] \notin DOMAIN room_languages

\* C5: when a send of a broadcast fails, the broadcast still sends to every
\* other member and returns normally, and the members it removes are
\* exactly those whose send failed.
C5_BroadcastIsolatesFailure ==
    (last_bcast.done /\ last_bcast.send_failed)
    => (~last_bcast.error /\ last_bcast.all_attempted /\ last_bcast.removed_failed)

\* C6: whatever connect, disconnect and broadcast steps interleave with a
\* broadcast suspended in a send, the broadcast does not fail and every
\* connection that is a member throughout it is sent the message.
C6_BroadcastNeedsNoLock ==
    last_bcast.done => (~last_bcast.error /\ last_bcast.all_attempted)

\* C7: consecutive identical payloads of one connection produce exactly one
\* room broadcast, however many there are; a payload is flagged iff it
\* equals the one stored for the connection, and after every call the
\* stored payload is the one just received.
C7_DedupeOneBroadcast ==
    /\ \A c \in Conns :
          (streak[c] >= 2 /\ last_payload[c].type = "text") => streak_bcasts[c] = 1
    /\ \A ws \in Conns, f \in Frames :
          LET d == is_duplicate_message(Registry, ws, f)
          IN /\ d.ret <=> (ws \in DOMAIN client_last_message
                              /\ client_last_message[ws] = f)
             /\ d.reg.clm[ws] = f

(***************************************************************************)
(* Properties of the rate limiter.                                         *)
(***************************************************************************)
\* C8: for any limit L, of L+1 checks one client makes within 60 seconds
\* exactly one is refused, the last; and a check made once more than 60
\* further seconds have passed is allowed again.
C8_BurstRejectsOnlyLast ==
    \A c \in Clients :
        LET k == checks[c]
        IN /\ (k.n = rate_limit + 1 /\ k.burst) => (k.rejected = 1 /\ ~k.last_ok)
           /\ (k.n = rate_limit + 2 /\ k.burst /\ k.gap) => k.last_ok

\* C9: for every client and limit, the accepted requests whose timestamps
\* lie in the trailing 60 seconds are never more than the limit.
C9_AcceptedWithinWindow ==
    \A c \in Clients : Len(InWindow(accepted[c], clock)) <= rate_limit

\* C10: in every reachable state each client's window holds at most
\* RATE_LIMIT_PER_MINUTE timestamps.
C10_WindowBounded ==
    \A c \in DOMAIN client_requests : Len(client_requests[c]) <= rate_limit

\* C10 witness: a client whose window is full has been refused.
C10_Witness ==
    \E c \in DOMAIN client_requests :
        /\ Len(client_requests[c]) = rate_limit
        /\ checks[c].rejected >= 1

\* the step is a call of check_rate_limit for client c
CheckStep(c) == checks'[c].n = checks[c].n + 1

\* C29: check_rate_limit(client) drops the client's timestamps older than
\* 60 seconds; if as many as the limit or more remain it returns False and
\* the window is what remained; otherwise it returns True and the window is
\* what remained with the current time appended (less its oldest entry if
\* the deque was full).  No other client's window changes.
C29_CheckAndRecord ==
    [][\A c \in Clients : CheckStep(c) =>
          LET kept == InWindow(QueueOf(c), clock)
              after == client_requests'[c]
          IN /\ IF Len(kept) >= rate_limit
                THEN ~checks'[c].last_ok /\ after = kept
                ELSE /\ checks'[c].last_ok
                     /\ after = Append(kept, clock)
                           \/ (Len(kept) = DequeMaxLen /\ after = Append(Tail(kept), clock))
             /\ \A d \in Clients \ {c} :
                   /\ d \in DOMAIN client_requests' <=> d \in DOMAIN client_requests
                   /\ d \in DOMAIN client_requests => client_requests'[d] = client_requests[d]
      ]_vars

\* C29 witness: a client was refused, and was allowed again after its
\* timestamps had expired, while another client holds a window of its own.
C29_Witness ==
    \E c \in Clients, d \in Clients :
        /\ c # d
        /\ checks[c].rejected >= 1 /\ checks[c].last_ok /\ checks[c].gap
        /\ client_requests[c] = <<clock>>
        /\ d \in DOMAIN client_requests /\ Len(client_requests[d]) >= 1

(***************************************************************************)
(* Properties of the translation cache and of the engine.                  *)
(***************************************************************************)
\* C11: after construction and after any sequence of translate_text and
\* clear_cache calls (the gets, puts and clears of the cache), the cache
\* holds at most max_size entries, also when max_size is smaller than the
\* seed corpus.
C11_CacheBounded == size(cache) <= max_size

\* C11 witness: a cache smaller than the corpus is full and holds the result
\* of a translation that missed it.
C11_Witness ==
    /\ max_size < NumSeedEntries
    /\ size(cache) = max_size
    /\ last_result.done /\ ~last_result.cache_hit
    /\ make_cache_key(last_result.text, last_result.source, last_result.target)
          \in Keys(cache)

\* a key leaves the cache only if every key that stays was got or put later
EvictsLRU ==
    \A e \in Keys(cache) \ Keys(cache'), k \in Keys(cache) \cap Keys(cache') :
        used'[k] > used[e]

\* the step is one of clear_cache
Clearing == naccess' >= naccess + NumSeedEntries

\* a step other than clear_cache evicts an entry iff it stores a new key in
\* a full cache, and then it evicts one entry
SingleEviction ==
    ~Clearing =>
        Cardinality(Keys(cache) \ Keys(cache')) =
            IF Keys(cache') \ Keys(cache) # {} /\ size(cache) = max_size THEN 1 ELSE 0

\* capacity + 1 distinct keys put into an empty cache with no other access:
\* the first is absent and every other one is retrieved
FirstInsertedEvicted ==
    LET max == NumSeedEntries - 1
        entries == initialize_cache(<< >>, max, 1)
    IN /\ SeedKeys[1] \notin Keys(entries)
       /\ get(entries, SeedKeys[1]).ret = NoValue
       /\ \A j \in 2..NumSeedEntries : Truthy(get(entries, SeedKeys[j]).ret)

\* C12: when a put of a new key finds the cache full, the one entry evicted
\* is the one whose latest get or put is the oldest; after capacity + 1
\* distinct keys are put with no other access, the first is absent and the
\* others are retrievable.
C12_EvictsLeastRecentlyUsed ==
    [][EvictsLRU /\ SingleEviction]_vars /\ []FirstInsertedEvicted

\* C12 witness: in a full cache the phrase stored first is still there,
\* because it was looked up, and the phrase stored second was evicted.
C12_Witness ==
    /\ size(cache) = max_size
    /\ max_size >= NumSeedEntries
    /\ SeedKeys[1] \in Keys(cache)
    /\ SeedKeys[2] \notin Keys(cache)

\* the highest similarity of text to a phrase of the source language
RECURSIVE BestScore(_, _, _)
BestScore(text, phrases, i) ==
    IF i = 0 THEN [num |-> 0, den |-> 1]
    ELSE LET rest == BestScore(text, phrases, i - 1)
             score == calculate_similarity(lower(text), lower(phrases[i]))
         IN IF Higher(score, rest) THEN score ELSE rest

\* the translations paired with the phrases of the source language that
\* have the highest similarity to text
BestPaired(text, source, target) ==
    LET phrases == PhrasesOf(source)
        best == BestScore(text, phrases, Len(phrases))
    IN {PhrasesOf(target)[i] : i \in {j \in DOMAIN phrases :
            LET s == calculate_similarity(lower(text), lower(phrases[j]))
            IN s.num * best.den = best.num * s.den}}

\* C13: _try_fuzzy_match returns nothing when the best Jaccard similarity
\* of the text to a seed phrase is at most 0.6, and returns the translation
\* paired with the best phrase when it is above 0.6.
C13_FuzzyMatchThreshold ==
    \A q \in Requests :
        LET target == target_lang(q.source)
            phrases == PhrasesOf(q.source)
            best == BestScore(q.text, phrases, Len(phrases))
            ret == try_fuzzy_match(cache, q.text, q.source, target).ret
        IN IF Above60(best) THEN ret \in BestPaired(q.text, q.source, target)
           ELSE ret = NoValue

\* the text is a phrase of the corpus in the language source, up to case
\* and surrounding whitespace
IsSeed(text, source) ==
    \E i \in DOMAIN PhrasesOf(source) :
        strip(lower(text)) = strip(lower(PhrasesOf(source)[i]))

PairedSeed(text, source) ==
    LET i == CHOOSE j \in DOMAIN PhrasesOf(source) :
                 strip(lower(text)) = strip(lower(PhrasesOf(source)[j]))
    IN PhrasesOf(target_lang(source))[i]

\* C14: after any sequence of translation requests, a request for a seed
\* phrase in its own direction is served from the cache and does not run
\* the translation model.
C14_SeedsAlwaysCached ==
    (last_result.done /\ IsSeed(last_result.text, last_result.source))
    => (last_result.cache_hit /\ ~last_result.external)

\* C15: on a freshly built system, a payload that is a seed phrase of the
\* room's language L, up to case and surrounding whitespace, is answered
\* with cache_hit true, lang_source L, lang_target the other language and
\* the paired seed phrase as the translation.
C15_FreshSeedHit ==
    (last_result.done /\ last_result.fresh /\ ~last_result.is_partial
        /\ IsSeed(last_result.text, last_result.source))
    => /\ last_result.cache_hit
       /\ last_result.target = target_lang(last_result.source)
       /\ last_result.translated = PairedSeed(last_result.text, last_result.source)

\* the request of the translate_text call that this step starts: the one
\* that has returned, or the one now suspended at the model
Called ==
    IF tr' = tr THEN [text |-> last_result'.text, source |-> last_result'.source,
                      target |-> last_result'.target,
                      is_partial |-> last_result'.is_partial,
                      returned |-> TRUE, cache_hit |-> last_result'.cache_hit,
                      translated |-> last_result'.translated]
    ELSE LET c == CHOOSE d \in Conns : tr'[d] # tr[d]
         IN [text |-> tr'[c].text, source |-> tr'[c].source, target |-> tr'[c].target,
             is_partial |-> tr'[c].is_partial, returned |-> FALSE,
             cache_hit |-> FALSE, translated |-> NoValue]

\* the phrases of the source language that the text resembles by more than
\* 0.6, as their cache keys
Resembled(q) ==
    {make_cache_key(PhrasesOf(q.source)[i], q.source, q.target) :
        i \in {j \in DOMAIN PhrasesOf(q.source) :
                  Above60(calculate_similarity(lower(q.text),
                                               lower(PhrasesOf(q.source)[j])))}}

SeedValue(j) ==
    IF j % 2 = 1 THEN test_sentences["en"][(j + 1) \div 2]
    ELSE test_sentences["id"][j \div 2]

\* C32: after clear_cache, whatever the cache held before, the cache holds
\* exactly the keys of the seed corpus in both directions, each with its
\* paired phrase, which are the contents it had after construction.
C32_ClearRestoresSeeds ==
    [][Clearing =>
          /\ Keys(cache') = {SeedKeys[j] : j \in DOMAIN SeedKeys}
          /\ \A j \in DOMAIN SeedKeys : ValueOf(cache', SeedKeys[j]) = SeedValue(j)
          /\ cache' = initialize_cache(<< >>, max_size, 1)]_vars

\* The step is the return of a translate_text call that found no
\* translation and hands back the text it was given, cleaned.
FellBack ==
    /\ last_result' # last_result
    /\ ~last_result'.cache_hit
    /\ last_result'.source # last_result'.target
    /\ last_result'.translated = clean_text(last_result'.text)

\* C37: the untranslated text that translate_text returns when the model
\* times out, raises or is missing is never stored in the cache as the
\* translation of that text, so that the same request made next is not a
\* cache hit that returns the untranslated text.
C37_FallbackNeverCached ==
    /\ [][FellBack =>
            LET k == make_cache_key(last_result'.text, last_result'.source,
                                    last_result'.target)
            IN  k \in Keys(cache') => ValueOf(cache', k) # last_result'.translated]_vars
    /\ []((last_result.done /\ last_result.cache_hit)
             => last_result.translated # clean_text(last_result.text))

(***************************************************************************)
(* Properties of the control protocol.                                     *)
(***************************************************************************)
\* The step is a turn of the receive loop; last_recv' tells which.
RecvStep == nrecv' = nrecv + 1

Bare(f) == Frame("", f.type, f.val)

\* C16: a frame that holds the marker 'CONTROL:' followed by a recognized
\* control body B is handled as the bare frame B is: it is taken for a
\* control and not for a payload, with the same reply, the same change of
\* the registry and the same broadcast.
C16_MarkerSameAsBare ==
    [][(RecvStep /\ last_recv'.frame.pre = "CONTROL:"
           /\ last_recv'.frame.type \in ControlTypes
           /\ last_recv'.conn \notin broken)
       => /\ last_recv'.control
          /\ last_recv'.reply = Reply(last_recv'.conn, Json(last_recv'.frame))
          /\ Receive(last_recv'.conn, Bare(last_recv'.frame))]_vars

UnhandledCandidate(f) == f.type \in {"malformed", "unknown"}

\* C17: a control candidate whose JSON is malformed or whose type is none
\* of the recognized ones raises no error and closes no connection: it is
\* reported as not handled and goes through the payload processing that a
\* plain text goes through.
C17_UnknownControlIsPayload ==
    [][(RecvStep /\ UnhandledCandidate(last_recv'.frame))
       => /\ ~last_recv'.control
          /\ ~last_recv'.handled
          /\ last_recv'.reply = "none"
          /\ pc'[last_recv'.conn] # "done"
          /\ \A r \in Rooms : Members(Registry', r) = Members(Registry, r)
          /\ Payload(last_recv'.conn, last_recv'.frame, Registry)]_vars

\* C17 witness: a frame behind the marker whose JSON is malformed is being
\* broadcast to its sender's room as a payload.
C17_Witness ==
    /\ last_recv.frame.type = "malformed"
    /\ last_recv.frame.pre = "CONTROL:"
    /\ pc[last_recv.conn] = "send"
    /\ bc[last_recv.conn].kind = "translation"
    /\ client_last_message[last_recv.conn] = last_recv.frame

\* the language of room r is set by this step
SetsLanguage(r) ==
    \/ RecvStep /\ last_recv'.frame.type = "language" /\ room_code[last_recv'.conn] = r
    \/ nrecv' = nrecv /\ pc' = pc /\ active_connections' = active_connections

\* C18: every control frame of type 'language' sets the room's language to
\* the value it carries and its sender is sent the ack; the room's language
\* then stays that value until it is set again or the room is destroyed.
C18_LanguageFrameSetsAndAcks ==
    [][/\ (RecvStep /\ last_recv'.control /\ last_recv'.frame.type = "language")
          => /\ get_room_language(Registry', room_code[last_recv'.conn])
                   = last_recv'.frame.val
             /\ last_recv'.reply = "ack"
       /\ \A r \in DOMAIN room_languages :
             /\ (r \in DOMAIN room_languages' /\ room_languages'[r] # room_languages[r])
                   => SetsLanguage(r)
             /\ r \notin DOMAIN room_languages' => r \notin DOMAIN active_connections'
      ]_vars

\* C19: in every reachable state every room's language is 'id' or 'en', so
\* that the direction of a translation is id->en or en->id.
C19_LanguageIsIdOrEn ==
    \A r \in Rooms :
        /\ get_room_language(Registry, r) \in Languages
        /\ <<get_room_language(Registry, r), target_lang(get_room_language(Registry, r))>>
              \in ModelPairs

\* C20: a ping is answered with one pong, to its sender only; it starts no
\* broadcast and changes no registry, cache, rate or metrics state.
C20_PingOnlyPongs ==
    [][(RecvStep /\ last_recv'.control /\ last_recv'.frame.type = "ping")
       => /\ last_recv'.reply = "pong"
          /\ last_recv'.handled
          /\ UNCHANGED <<regVars, pc, bc, last_bcast, rateVars, cacheVars>>]_vars

\* C36: a frame that process_control_json is called for, with a type it
\* knows (language, ping, partial_speech, close_room), is never afterwards
\* processed as an ordinary payload, also when the send of its reply fails:
\* it is not stored as its sender's last payload and no translation of it
\* is broadcast.
C36_ControlNeverPayload ==
    [][(RecvStep /\ last_recv'.control)
       => /\ last_recv'.handled
          /\ client_last_message' = client_last_message
          /\ bc'[last_recv'.conn].kind # "translation"]_vars

(***************************************************************************)
(* The metrics feed: the websocket routes of the router in the order of    *)
(* their declaration, the clients that open a websocket at a path below    *)
(* /ws, and the loop of metrics_pusher.  broadcast_metrics is taken as one *)
(* step of the pusher.                                                     *)
(***************************************************************************)
Routes ==
    <<[param |-> TRUE, segment |-> "room_code", endpoint |-> "websocket_endpoint"],
      [param |-> FALSE, segment |-> "metrics", endpoint |-> "metrics_endpoint"]>>

\* the last segment of the paths that clients open
Paths == {"metrics", "room"}

\* a route with a path parameter matches every segment, a literal route its own
matches(route, p) == route.param \/ route.segment = p

\* the router hands the connection to the first route that matches
route_of(p) ==
    Routes[CHOOSE i \in DOMAIN Routes :
              /\ matches(Routes[i], p)
              /\ \A j \in DOMAIN Routes : j < i => ~matches(Routes[j], p)]

\* the number of the room whose code is the segment p
RoomAt(p) ==
    IF \E d \in Conns : path[d] = p
    THEN room_code[CHOOSE d \in Conns : path[d] = p]
    ELSE rooms_named + 1

\* A client opens a websocket at /ws/<p>: the endpoint of the route runs up
\* to its first await after the accept.
Open(c, p) ==
    /\ path' = [path EXCEPT ![c] = p]
    /\ IF route_of(p).endpoint = "websocket_endpoint"
       THEN /\ Endpoint(c, RoomAt(p))
            /\ UNCHANGED metrics_connections
       ELSE /\ pc[c] = "new"
            /\ \A d \in Conns : d < c => pc[d] # "new"
            /\ metrics_connections' = metrics_connections \cup {c}
            /\ pc' = [pc EXCEPT ![c] = "sleep"]
            /\ UNCHANGED <<max_connections, regVars, room_code, bc, broken, nrecv, ncreate,
                           rooms_named, created, had_connection, connect_result,
                           last_bcast, streak, streak_bcasts, last_payload>>
    /\ UNCHANGED <<rateVars, cacheVars, last_recv, data, stages, reply, response,
                   total_requests, statVars, total_errors, saves, db, last_save, nticks, last_tick>>

\* One turn of the loop of metrics_pusher after its sleep: with a
\* subscriber the payload is built and broadcast_metrics sends it to each
\* subscriber and discards those whose send raised.
PusherTick ==
    /\ nticks < MaxTicks
    /\ nticks' = nticks + 1
    /\ IF metrics_connections # {}
       THEN /\ last_tick' = [done |-> TRUE, built |-> TRUE,
                             sent |-> metrics_connections \ broken]
            /\ metrics_connections' = metrics_connections \ broken
       ELSE /\ last_tick' = [done |-> TRUE, built |-> FALSE, sent |-> {}]
            /\ UNCHANGED metrics_connections
    /\ UNCHANGED <<relayVars, rateVars, cacheVars, data, stages, reply, response,
                   total_requests, statVars, total_errors, saves, db, last_save, path>>

NextMetrics ==
    \/ \E c \in Conns, p \in Paths : Open(c, p)
    \/ \E c \in Conns : TransportBreak(c)
    \/ \E c \in Conns : ClientDisconnect(c)
    \/ PusherTick

SpecMetrics == InitPipeline /\ [][NextMetrics]_vars

(***************************************************************************)
(* Properties of the persistence.                                          *)
(***************************************************************************)
\* the text holds a marker of the denylist, whatever the casing of either
HoldsMarker(text) ==
    \E indicator \in control_indicators, w \in split(text) : indicator.letters \in Within(w)

\* C26: save_translation writes no record whose original or translated text
\* holds a marker of the denylist in any casing: it returns False for it
\* before any write attempt; and the check rejects no record whose texts
\* hold none of the markers.
C26_SaveRejectsControlText ==
    /\ \A r \in DOMAIN db : ~HoldsMarker(db[r].original) /\ ~HoldsMarker(db[r].translated)
    /\ last_save.done =>
          /\ (HoldsMarker(last_save.original) \/ HoldsMarker(last_save.translated))
                => (last_save.blocked /\ ~last_save.ret /\ ~last_save.wrote)
          /\ last_save.blocked
                => (HoldsMarker(last_save.original) \/ HoldsMarker(last_save.translated))
    /\ \A task \in saves :
          task.attempt > 0 => ~HoldsMarker(task.original) /\ ~HoldsMarker(task.translated)

\* C26 witness: a save whose translated text holds a marker in upper case
\* was rejected, and nothing was written.
C26_Witness ==
    /\ last_save.done /\ last_save.blocked /\ ~last_save.ret
    /\ ~HoldsMarker(last_save.original)
    /\ last_save.translated.case = "upper"
    /\ db = EmptyMap

(***************************************************************************)
(* Properties of the path of a frame.                                      *)
(***************************************************************************)
\* the key-to-value mapping of the cache, whatever the order of its entries
Mapping(entries) == {<<entries[i].key, entries[i].value>> : i \in DOMAIN entries}

\* the step is the turn of c for a partial_speech frame, or the return of
\* the translation that process_partial_speech of c awaits
PartialTurn(c) ==
    RecvStep /\ last_recv'.conn = c
       /\ control_json(last_recv'.frame).type = "partial_speech"
PartialReturn(c) == pc[c] = "partial" /\ pc'[c] # "partial"

\* C21: no step of a partial_speech request adds or changes a key-to-value
\* mapping of the cache, whether its text is served by an exact hit, by the
\* model, or fails; and the message it broadcasts has type
\* 'partial_translation' and is_partial true.
C21_PartialLeavesCache ==
    [][\A c \in Conns : (PartialTurn(c) \/ PartialReturn(c)) =>
          /\ Mapping(cache') = Mapping(cache)
          /\ pc'[c] = "send" =>
                /\ response'[c].type = "partial_translation"
                /\ response'[c].is_partial
                /\ bc'[c].kind = "partial"]_vars

\* C21 witness: a partial_speech text that an earlier payload had put in
\* the cache was served from it, and its partial translation is being
\* broadcast.
C21_Witness ==
    \E c \in Conns :
        /\ pc[c] = "send" /\ data[c].type = "partial_speech"
        /\ response[c].type = "partial_translation" /\ response[c].is_partial
        /\ last_result.is_partial /\ last_result.cache_hit
        /\ response[c].translated = last_result.translated

\* the positions of stages at which one of xs was done
Pos(st, xs) == {i \in DOMAIN st : st[i] \in xs}

\* C22: for a close_room frame with delete_data true, delete_room is called
\* and has returned, all its retries made, before a member is sent the
\* notice; the requester's ack is sent only after the closure broadcast has
\* returned with every member sent to; with delete_data false delete_room
\* is not called.
C22_CloseRoomOrder ==
    \A c \in Conns : data[c].type = "close_room" =>
        LET st == stages[c]
        IN /\ data[c].val = "delete" =>
                 /\ st # << >> /\ st[1] = "delete_call"
                 /\ \A i \in Pos(st, {"broadcast", "sent", "send_failed"}) :
                       \E j \in Pos(st, {"deleted", "gave_up"}) : j < i
                 /\ \A j \in Pos(st, {"gave_up"}) :
                       Cardinality(Pos(st, {"delete_failed"})) = MaxRetries
           /\ data[c].val = "keep" =>
                 /\ Pos(st, {"delete_call", "deleted", "delete_failed", "gave_up"}) = {}
                 /\ pc[c] # "delete"
           /\ \A i \in Pos(st, {"ack"}) :
                 /\ \E j \in Pos(st, {"attempted_all"}) : j < i
                 /\ \A j \in Pos(st, {"raised", "missed"}) : j > i

\* C22 witness: a close_room with delete_data true whose deletion succeeded
\* at its second attempt has notified both members and acknowledged the
\* requester.
C22_Witness ==
    \E c \in Conns :
        /\ data[c] = Frame("", "close_room", "delete")
        /\ pc[c] = "recv" /\ reply[c] = "closed"
        /\ stages[c] = <<"delete_call", "delete_failed", "deleted", "broadcast",
                         "sent", "sent", "attempted_all", "ack">>

\* what a dict holds for a key
Held(d, k) == IF k \in DOMAIN d THEN {d[k]} ELSE {}

\* the turn of c's loop that this step is, and how it stopped
TurnOf(c) == nrecv' = nrecv + 1 /\ last_recv'.conn = c
StoppedAt(c, stage) ==
    /\ TurnOf(c)
    /\ stages'[c] # << >>
    /\ stages'[c][Len(stages'[c])] = stage

\* C23: a payload that the rate limiter rejects gets its client an error
\* frame (when the client's transport still takes one), leaves the handler
\* in its receive loop and every room with the members it had, starts no
\* broadcast, and leaves the request window, the last message and the
\* handler of every other client as they were.
C23_RateLimitedOnlyAnswered ==
    [][\A c \in Conns : StoppedAt(c, "limited") =>
          /\ c \notin broken => reply'[c] = "error"
          /\ pc'[c] = "recv"
          /\ active_connections' = active_connections
          /\ bc' = bc /\ response' = response /\ last_bcast' = last_bcast
          /\ \A o \in Conns \ {c} :
                /\ Held(client_requests', o) = Held(client_requests, o)
                /\ Held(client_last_message', o) = Held(client_last_message, o)
                /\ pc'[o] = pc[o]]_vars

\* C23 witness: the second payload of a client was rejected and answered
\* with the error frame, while the other client, with a request in its own
\* window, is still in the room.
C23_Witness ==
    \E c \in Conns : \E o \in Conns \ {c} :
        /\ stages[c] = <<"dedupe", "rate", "limited">>
        /\ reply[c] = "error" /\ pc[c] = "recv"
        /\ {c, o} \subseteq active_connections[room_code[c]]
        /\ Len(QueueOf(c)) = rate_limit
        /\ pc[o] = "recv"

\* the awaited model call of c's payload raised or timed out, and
\* translate_text has returned
FailedReturn(c) ==
    /\ pc[c] = "xlate" /\ pc'[c] # "xlate"
    /\ Pos(stages'[c], {"failed"}) # {}

\* C24: when the model call of a payload fails or times out, the text is
\* used untranslated, the error counter increases, the result is broadcast
\* to the room, and no connection is closed or removed.
C24_FailOpenRecordsError ==
    [][\A c \in Conns : FailedReturn(c) =>
          /\ response'[c].translated = clean_text(TextOf(data[c]))
          /\ response'[c].status = "ok"
          /\ Pos(stages'[c], {"broadcast"}) # {}
          /\ total_errors' = total_errors + 1
          /\ active_connections' = active_connections
          /\ \A o \in Conns : pc'[o] = "done" => pc[o] = "done"]_vars

\* a step of a save_translation task
SaveStepTaken == \E task \in saves : task \notin saves'

\* C25: the handler that makes the save task of a payload calls the room
\* broadcast of that payload in the same step, with the task still to run;
\* and no step of a save task, whether it writes, is blocked or fails,
\* sends a frame to a client, changes a broadcast or its message, or moves
\* a handler.
C25_SaveFireAndForget ==
    [][/\ \A c \in Conns : \A task \in saves' \ saves :
             stages'[c] # stages[c] =>
                /\ task.attempt = 0
                /\ stages'[c][Len(stages'[c])] = "broadcast"
                /\ response'[c].status = "ok"
                /\ response'[c].original = task.original
                /\ response'[c].translated = task.translated
       /\ SaveStepTaken =>
             /\ reply' = reply /\ response' = response
             /\ bc' = bc /\ last_bcast' = last_bcast
             /\ pc' = pc /\ stages' = stages
             /\ active_connections' = active_connections]_vars

\* C25 witness: the save of a payload has failed at every attempt while
\* the broadcast of that payload is still sending to the room.
C25_Witness ==
    \E c \in Conns :
        /\ pc[c] = "send" /\ bc[c].kind = "translation"
        /\ response[c].original = last_save.original
        /\ response[c].translated = last_save.translated
        /\ last_save.done /\ ~last_save.ret /\ ~last_save.blocked

\* o is taken out of the room it is in, or its handler leaves its loop
Removed(o) ==
    \E room \in DOMAIN active_connections :
        /\ o \in active_connections[room]
        /\ room \in DOMAIN active_connections' => o \notin active_connections'[room]
Ended(o) == pc[o] \notin {"new", "done"} /\ pc'[o] = "done"

\* a send to o has failed: one of the broadcast that ends in this step, or
\* the placeholder answer of o's own handler
SendFailed(o) ==
    /\ o \in broken
    /\ \/ \E c \in Conns :
             /\ pc[c] = "send" /\ pc'[c] # "send"
             /\ o \in bc[c].failed \cup {bc[c].target}
       \/ (TurnOf(o) /\ is_placeholder_message(data'[o]))

\* C27: in the handling of payloads, with model calls that fail, saves that
\* fail and broadcasts that raise, a connection is taken out of its room or
\* its handler ended only when a send to that connection has failed.
C27_OnlyFailedReceiverEnds ==
    [][\A o \in Conns : (Removed(o) \/ Ended(o)) => SendFailed(o)]_vars

\* C27 witness: a broadcast that had a failed send has ended, the model
\* call of its payload had failed too, and the other member of the room is
\* still in it with its handler in its loop.
C27_Witness ==
    \E c \in Conns : \E o \in Conns \ {c} :
        /\ Pos(stages[c], {"failed"}) # {}
        /\ Pos(stages[c], {"send_failed"}) # {}
        /\ last_bcast.done /\ last_bcast.send_failed
        /\ c \in broken /\ pc[c] = "recv"
        /\ room_code[c] \in DOMAIN active_connections
        /\ active_connections[room_code[c]] = {o}
        /\ pc[o] = "recv" /\ total_requests = 1

\* the stages of a payload, in the order the spec gives them
StageOrder ==
    <<"dedupe", "rate", "cache", "fuzzy", "translate", "store", "metrics", "persist",
      "broadcast">>
Staged == {StageOrder[i] : i \in DOMAIN StageOrder}
Rank == [stage \in Staged |-> CHOOSE i \in DOMAIN StageOrder : StageOrder[i] = stage]
Stops == {"duplicate", "limited", "placeholder"}

\* the stages of st are in the order of StageOrder, and where the frame
\* was stopped nothing follows
InOrder(st) ==
    LET staged == SelectSeq(st, LAMBDA x : x \in Staged)
    IN /\ \A i \in 1..(Len(staged) - 1) : Rank[staged[i]] < Rank[staged[i + 1]]
       /\ \A i \in 1..(Len(st) - 1) : st[i] \notin Stops

\* C30: what a handler does for a frame is done in the order dedupe check,
\* rate check, cache lookup, fuzzy fallback, model call, cache store,
\* metrics record, save task, room broadcast, and nothing is done after
\* the stage at which the frame is stopped: the turn of a duplicate leaves
\* the windows of the rate limiter as they were, and the turn of a
\* rate-limited payload leaves the cache, the counters, the save tasks and
\* the broadcasts as they were.
C30_StagesInOrder ==
    [][\A c \in Conns :
          /\ stages'[c] # stages[c] => InOrder(stages'[c])
          /\ StoppedAt(c, "duplicate") =>
                /\ stages'[c] = <<"dedupe", "duplicate">>
                /\ client_requests' = client_requests
                /\ cache' = cache /\ ntranslate' = ntranslate
                /\ total_requests' = total_requests /\ saves' = saves
                /\ bc' = bc /\ response' = response
          /\ StoppedAt(c, "limited") =>
                /\ stages'[c] = <<"dedupe", "rate", "limited">>
                /\ cache' = cache /\ ntranslate' = ntranslate
                /\ total_requests' = total_requests /\ total_errors' = total_errors
                /\ saves' = saves
                /\ bc' = bc /\ response' = response]_vars

\* C30 witness: a payload has gone through all nine stages and the same
\* client's next payload, a repeat of it, was stopped at the dedupe check
\* with the client's window as the first payload left it.
C30_Witness ==
    \E c \in Conns :
        /\ stages[c] = <<"dedupe", "duplicate">>
        /\ reply[c] = "duplicate"
        /\ response[c].status = "ok" /\ response[c].original = ApaKabar
        /\ Len(QueueOf(c)) = 1
        /\ total_requests = 1 /\ ntranslate = 1
        /\ last_result.external

(***************************************************************************)
(* Properties of the metrics feed                                          *)
(***************************************************************************)
\* c opens its websocket at /ws/metrics in this step
OpensMetrics(c) == path[c] = "" /\ path'[c] = "metrics"

\* C28: a client that opens the metrics path is a metrics subscriber from
\* then on; a turn of the pusher with a subscriber builds the snapshot,
\* sends it to every subscriber whose transport takes it and removes the
\* others; a turn without a subscriber builds and sends nothing.
C28_MetricsFeed ==
    [][/\ \A c \in Conns : OpensMetrics(c) => c \in metrics_connections'
       /\ nticks' = nticks + 1 =>
             IF metrics_connections # {}
             THEN /\ last_tick'.built
                  /\ last_tick'.sent = metrics_connections \ broken
                  /\ metrics_connections' = metrics_connections \ broken
             ELSE /\ ~last_tick'.built
                  /\ last_tick'.sent = {}]_vars

(***************************************************************************)
(* Properties of the retries of the persistence.                           *)
(***************************************************************************)
\* a step of a save task: a failed attempt that is retried, or the return
\* of save_translation
SaveRetry ==
    \A task \in saves \ saves' :
        /\ task.attempt < MaxRetries
        /\ IF [task EXCEPT !.attempt = @ + 1] \in saves'
           THEN /\ task.attempt + 1 < MaxRetries
                /\ db' = db /\ last_save' = last_save
           ELSE /\ \A other \in saves' : other.id # task.id
                /\ last_save'.done
                /\ last_save'.ret <=> last_save'.wrote
                /\ last_save'.wrote =>
                      /\ task.room \in DOMAIN db'
                      /\ db'[task.room] = [original |-> task.original,
                                           translated |-> task.translated]
                /\ (~last_save'.ret /\ ~last_save'.blocked) =>
                      (task.attempt = MaxRetries - 1 /\ db' = db)

\* the attempts of delete_room for the close_room frame of c
DeleteRetry(c) ==
    LET st == stages[c]
        failed == Pos(st, {"delete_failed"})
        deleted == Pos(st, {"deleted"})
        gave_up == Pos(st, {"gave_up"})
    IN /\ Cardinality(failed) + Cardinality(deleted) <= MaxRetries
       /\ Cardinality(deleted) <= 1
       /\ \A i \in deleted : \A j \in failed : j < i
       /\ gave_up # {} => (deleted = {} /\ Cardinality(failed) = MaxRetries)
       /\ pc[c] = "delete" =>
             (deleted = {} /\ gave_up = {} /\ Cardinality(failed) < MaxRetries)
       /\ (Pos(st, {"delete_call"}) # {} /\ pc[c] # "delete") =>
             /\ deleted # {} \/ gave_up # {}
             /\ Pos(st, {"broadcast"}) # {}

\* C33: a write and a deletion make at most MaxRetries attempts and none
\* after a success; the write returns True iff an attempt has written, and
\* gives up only after the last attempt failed; the deletion ends with a
\* success or after MaxRetries failures, and its caller goes on to the
\* broadcast either way; and every write and deletion that has started
\* comes to its end.
C33_RetriesBoundedAndEnd ==
    /\ [][SaveRetry]_vars
    /\ [](\A task \in saves : task.attempt < MaxRetries)
    /\ [](\A c \in Conns : DeleteRetry(c))
    /\ (saves # {}) ~> (saves = {})
    /\ \A c \in Conns : (pc[c] = "delete") ~> (pc[c] # "delete")

\* C33 witness: the write of a payload has returned False after its last
\* attempt failed, and the deletion asked for by a close_room frame has
\* succeeded at its last attempt.
C33_Witness ==
    /\ last_save.done /\ ~last_save.ret /\ ~last_save.blocked
    /\ db = EmptyMap
    /\ \E c \in Conns :
          /\ data[c] = Frame("", "close_room", "delete")
          /\ Len(stages[c]) >= 4
          /\ SubSeq(stages[c], 1, 4) = <<"delete_call", "delete_failed", "delete_failed",
                                          "deleted">>

(***************************************************************************)
(* Properties of the statistics.                                           *)
(***************************************************************************)
\* The newest k elements of q, oldest first.
Newest(q, k) == IF Len(q) <= k THEN q ELSE SubSeq(q, Len(q) - k + 1, Len(q))

\* The step is a call of record_translation.
Recording == total_requests' # total_requests \/ translation_metrics' # translation_metrics

WithinCapacities ==
    /\ Len(translation_metrics) <= HistoryMaxLen
    /\ \A k \in DOMAIN performance_data : Len(performance_data[k]) <= WindowMaxLen

\* C34: each record_translation call appends one sample to the history and
\* one value of that sample to each rolling window, and adds exactly one to
\* the counter of requests; the history and the windows never hold more
\* than their capacities, the oldest element leaving first, while the
\* counter goes on counting past the capacities.
C34_RecordAppendsAndCounts ==
    /\ [][Recording =>
            /\ total_requests' = total_requests + 1
            /\ \E m \in Samples :
                 /\ translation_metrics' =
                        Newest(Append(translation_metrics, m), HistoryMaxLen)
                 /\ performance_data'.translation_times =
                        Newest(Append(performance_data.translation_times,
                                      m.translation_time_ms), WindowMaxLen)
                 /\ performance_data'.preprocessing_times =
                        Newest(Append(performance_data.preprocessing_times,
                                      m.preprocessing_time_ms), WindowMaxLen)
                 /\ performance_data'.cache_hits =
                        Newest(Append(performance_data.cache_hits, m.cache_hit),
                               WindowMaxLen)]_vars
    /\ [][performance_data' # performance_data => Recording]_vars
    /\ []WithinCapacities
    /\ [](Len(translation_metrics) = IF total_requests < HistoryMaxLen
                                     THEN total_requests ELSE HistoryMaxLen)

C34_Witness ==
    /\ total_requests > HistoryMaxLen
    /\ Len(translation_metrics) = HistoryMaxLen
    /\ Len(performance_data.translation_times) = WindowMaxLen
    /\ translation_metrics[1] # translation_metrics[HistoryMaxLen]

\* The element of rank ceil(p * n / 100) of the ascending sort of xs.
NearestRank(xs, p) == sorted(xs)[((p * Len(xs)) + 99) \div 100]

HistoryOf(field) == [i \in DOMAIN translation_metrics |-> translation_metrics[i][field]]

\* C35: the percentiles of get_detailed_stats are those of the nearest-rank
\* method on the ascending sort of the whole retained history: with n >= 1
\* samples, percentile p is the element of rank ceil(p * n / 100).
C35_PercentilesNearestRank ==
    [][(last_stats' # last_stats /\ translation_metrics # << >>) =>
          \A p \in Percents :
             /\ last_stats'.translation_time_percentiles[p] =
                    NearestRank(HistoryOf("translation_time_ms"), p)
             /\ last_stats'.preprocessing_time_percentiles[p] =
                    NearestRank(HistoryOf("preprocessing_time_ms"), p)]_vars

(***************************************************************************)
(* Properties of a connection after its removal.                           *)
(***************************************************************************)
\* The handler of c is in its loop and c is no member of its room: the
\* clean-up of a broadcast has taken it out after a failed send.
TakenOut(c) ==
    /\ pc[c] = "recv"
    /\ room_code[c] \in DOMAIN active_connections => c \notin active_connections[room_code[c]]

\* C38: once the clean-up of a broadcast has removed a connection from its
\* room, a frame that connection sends starts no broadcast to the room and
\* changes nothing in the registry: no member, no language, no last
\* payload.
C38_RemovedConnectionInert ==
    [][\A c \in Conns : (TakenOut(c) /\ TurnOf(c)) =>
          /\ UNCHANGED regVars
          /\ pc'[c] # "send"
          /\ ~bc'[c].active]_vars

(***************************************************************************)
(* Properties of a room after close_room.                                  *)
(***************************************************************************)
\* The step is one of the handling of a close_room frame by the handler of c.
ClosureStep(c) ==
    /\ data'[c].type = "close_room"
    /\ (stages'[c] # stages[c] \/ pc'[c] # pc[c] \/ bc'[c] # bc[c])

\* The step ends the broadcast of the notice of c's close_room, which
\* returns; Notified is whom the notice was sent to.
NoticeDone(c) ==
    /\ data[c].type = "close_room" /\ bc[c].kind = "closure"
    /\ pc[c] = "send" /\ pc'[c] = "ack"
Notified(c) == bc[c].ok \cup ({bc[c].target} \ broken)

\* The step is the send of the ack of c's close_room.
Acked(c) ==
    /\ data[c].type = "close_room" /\ pc[c] = "ack"
    /\ stages'[c] = Append(stages[c], "ack")

\* a close_room of room has been acknowledged to its requester
ClosedBy(room) == {d \in Conns : room_code[d] = room /\ reply[d] = "closed"}

\* C39: close_room changes neither the membership nor the language of its
\* room.  No step of its handling adds a member, changes a language, or
\* removes a connection other than one the send of the notice failed for;
\* when the notice has been broadcast every connection it was sent to is a
\* member of the room, which is in the registry, and the ack leaves the
\* registry as it is; a payload that a member sends after the ack is
\* deduplicated, rate-limited, translated and broadcast to the members like
\* any payload.
C39_CloseRoomKeepsRoom ==
    /\ [][\A c \in Conns : ClosureStep(c) =>
            /\ \A r \in DOMAIN active_connections' :
                  /\ r \in DOMAIN active_connections
                  /\ active_connections'[r] \subseteq active_connections[r]
                  /\ Held(room_languages', r) = Held(room_languages, r)
            /\ \A o \in Conns : Removed(o) => SendFailed(o)]_vars
    /\ [][\A c \in Conns : NoticeDone(c) =>
            \A o \in Notified(c) :
               /\ room_code[c] \in DOMAIN active_connections'
               /\ o \in active_connections'[room_code[c]]]_vars
    /\ [][\A c \in Conns : Acked(c) => UNCHANGED regVars]_vars
    /\ [][\A c \in Conns :
            (/\ TurnOf(c) /\ data'[c].type = "text"
             /\ ClosedBy(room_code[c]) # {}
             /\ room_code[c] \in DOMAIN active_connections
             /\ c \in active_connections[room_code[c]]
             /\ ~is_duplicate_message(Registry, c, data'[c]).ret
             /\ check_rate_limit(QueueOf(c), clock, rate_limit).ret)
            => /\ ntranslate' = ntranslate + 1
               /\ \/ pc'[c] = "xlate"
                  \/ /\ pc'[c] = "send"
                     /\ bc'[c].kind = "translation"
                     /\ bc'[c].room = room_code[c]
                     /\ bc'[c].start = active_connections'[room_code[c]]]_vars

\* C39 witness: after a close_room was acknowledged, with its notice sent to
\* both members, a payload has been translated and sent to both members.
C39_Witness ==
    \E c \in Conns :
        /\ ClosedBy(room_code[c]) # {}
        /\ data[c].type = "text" /\ pc[c] = "recv"
        /\ active_connections = [r \in {room_code[c]} |-> Conns]
        /\ Pos(stages[c], {"sent"}) # {} /\ Pos(stages[c], {"attempted_all"}) # {}
        /\ Cardinality(Pos(stages[c], {"sent"})) = Cardinality(Conns)
        /\ response[c].translated = ModelOutput(ApaKabar, "en")

(***************************************************************************)
(* Properties of create_room.                                              *)
(***************************************************************************)
\* room exists: it has an entry in the registry
Existing(room) == room \in DOMAIN active_connections \cup DOMAIN room_languages

\* C40: create_room never returns the code of a room that exists, a room
\* made by an earlier create_room that has had no connection included: the
\* call makes the entry of a room that did not exist and leaves the
\* language of every existing room as it is.
C40_CreateNeverReusesCode ==
    [][ncreate' = ncreate + 1 =>
          /\ \E room \in Rooms : ~Existing(room) /\ room \in DOMAIN room_languages'
          /\ \A room \in DOMAIN room_languages :
                Held(room_languages', room) = {room_languages[room]}]_vars

====
